---- MODULE Spec2Model ----
(***************************************************************************)
(* PlayListory: the PKCE session manager (spotifyAuth), the paged Spotify  *)
(* fetcher (spotifyApi) and the playlist cache, as one state machine.      *)
(*                                                                         *)
(* JavaScript runs one task at a time and a task gives up control only at  *)
(* an await of I/O (fetch, res.json, an IndexedDB request).  An action of  *)
(* this model is therefore one run of a task from one such suspension to   *)
(* the next.  The two awaits `fetch` and `res.json()` of one request are   *)
(* one response step: the code between them reads only the response.       *)
(*                                                                         *)
(* localStorage is shared by every task (and every tab) of the origin, so  *)
(* the exported functions may be called while another call is suspended.   *)
(***************************************************************************)
EXTENDS Integers, Sequences, FiniteSets, TLC

VARIABLES
    ls,        \* localStorage: a function from the stored keys to their values
    now,       \* Date.now(), in ms
    href,      \* window.location.href: its query parameters code, state, iss
    login,     \* the last beginLogin call: what it threw or the URL it assigned
    cb,        \* the handleRedirectCallback call
    call,      \* per task: its position in getValidAccessToken / apiFetch
    inflight,  \* HTTP requests sent and not yet answered
    lib,       \* the spotifyApi call (a paged walk or getPlaylistsWithTracks)
    srv,       \* what the Spotify API serves: the page chain of each resource
    idb,       \* the IndexedDB object store 'cache': a function from keys to records
    cache,     \* per exported function of cacheDb: its call
    hist,      \* history of the cache: whose data each tier holds
    app        \* App: the fetch in progress and what the last render showed

vars == <<ls, now, href, login, cb, call, inflight, lib, srv, idb, cache, hist, app>>

(***************************************************************************)
(* Values                                                                  *)
(***************************************************************************)
Null == "<null>"       \* JS null / undefined: an absent value
Empty == ""            \* the empty string, falsy like null

Truthy(v) == v # Null /\ v # Empty

\* Bounds of the model
MaxTicks == 2          \* clock ticks explored after NowStart
MaxPages == 2          \* longest page chain the API serves for one resource
MaxItems == 2          \* most items on one page

SKEW == 30000
TickMs == SKEW \div 3
NowStart == 10 * TickMs
MaxNow == NowStart + MaxTicks * TickMs

ClientIds == {"abc"}
\* The random strings of a login attempt: attempt i draws verifier "v<i>" and state
\* "s<i>" (two draws of 64 and 16 random bytes do not repeat across attempts).
Attempts == {[codeVerifier |-> "v1", state |-> "s1"], [codeVerifier |-> "v2", state |-> "s2"]}
OAuthStates == {a.state : a \in Attempts}
Codes == {Empty, "c1"}
AccessTokens == {"a1", "a2"}
RefreshTokens == {"r1", "r2"}
ExpiresInValues == {40}        \* expires_in, seconds: usable for one tick

LS_KEYS ==
    [codeVerifier |-> "spotify_pkce_code_verifier",
     state |-> "spotify_oauth_state",
     token |-> "spotify_access_token",
     tokenExpiry |-> "spotify_access_token_expiry",
     refreshToken |-> "spotify_refresh_token"]

LsKeyValues == {LS_KEYS[f] : f \in DOMAIN LS_KEYS}

(***************************************************************************)
(* localStorage                                                            *)
(***************************************************************************)
EmptyStore == [k \in {} |-> Null]

getItem(s, k) == IF k \in DOMAIN s THEN s[k] ELSE Null

setItem(s, k, v) == [x \in (DOMAIN s) \cup {k} |-> IF x = k THEN v ELSE s[x]]

removeItem(s, k) == [x \in (DOMAIN s) \ {k} |-> s[x]]

\* Number(localStorage.getItem(LS_KEYS.tokenExpiry) || 0).  The expiry is stored
\* as String(n) of an integer n and read back with Number: the entry is kept here
\* as n itself, and an absent entry reads as 0.
storedExpiry(s) ==
    IF LS_KEYS.tokenExpiry \in DOMAIN s THEN s[LS_KEYS.tokenExpiry] ELSE 0

expiredMut(t, expiry) == t > expiry - SKEW

expired(t, expiry) == t >= expiry - SKEW

getStoredAccessToken(s, t) ==
    LET token == getItem(s, LS_KEYS.token)
        expiry == storedExpiry(s)
    IN  IF ~Truthy(token) \/ expiry = 0 THEN Null
        ELSE IF expired(t, expiry) THEN Null
        ELSE token

hasRefreshToken(s) == Truthy(getItem(s, LS_KEYS.refreshToken))

RECURSIVE removeAll(_, _)
removeAll(s, keys) ==
    IF keys = {} THEN s
    ELSE LET k == CHOOSE x \in keys : TRUE
         IN  removeAll(removeItem(s, k), keys \ {k})

clearTokensStoreMut(s) ==
    removeAll(s, {LS_KEYS.token, LS_KEYS.tokenExpiry, LS_KEYS.refreshToken})

clearTokensStore(s) == removeAll(s, LsKeyValues)

(***************************************************************************)
(* The token endpoint                                                      *)
(***************************************************************************)
\* The JSON body of a token response: a field the body omits is Null (0 for
\* expires_in, which is falsy like an absent field).
Jsons ==
    [access_token : AccessTokens \cup {Null},
     expires_in : ExpiresInValues \cup {0},
     refresh_token : RefreshTokens \cup {Null}]

NoJson == [access_token |-> Null, expires_in |-> 0, refresh_token |-> Null]

\* What can come back for a request: "ok" a 2xx response with a JSON body,
\* "status" a non-2xx response, "netfail" fetch rejects, "badjson" res.json()
\* rejects on a 2xx response.
TokenResponses ==
    [kind : {"ok"}, json : Jsons]
        \cup [kind : {"status", "netfail", "badjson"}, json : {NoJson}]

storeTokenResponseMut(s, json, t) ==
    LET s1 == IF Truthy(json.access_token)
              THEN setItem(s, LS_KEYS.token, json.access_token) ELSE s
        s2 == IF json.expires_in # 0
              THEN setItem(s1, LS_KEYS.tokenExpiry, t + json.expires_in * 1000) ELSE s1
    IN  setItem(s2, LS_KEYS.refreshToken, json.refresh_token)

storeTokenResponse(s, json, t) ==
    LET s1 == IF Truthy(json.access_token)
              THEN setItem(s, LS_KEYS.token, json.access_token) ELSE s
        s2 == IF json.expires_in # 0
              THEN setItem(s1, LS_KEYS.tokenExpiry, t + json.expires_in * 1000) ELSE s1
    IN  IF Truthy(json.refresh_token)
        THEN setItem(s2, LS_KEYS.refreshToken, json.refresh_token) ELSE s2

\* The history h after storeTokenResponse(json), where it is recorded
\* (h.writers is not "off"): "same" while the stored access token and the
\* stored expiry were written by one call of storeTokenResponse (or neither is
\* stored), "split" once a call has written one of the two and not the other.
storeWriters(h, json) ==
    LET token == Truthy(json.access_token)
        expiry == json.expires_in # 0
    IN  IF h.writers = "off" \/ (~token /\ ~expiry) THEN h
        ELSE [h EXCEPT !.writers = IF token /\ expiry THEN "same" ELSE "split"]

\* A request on the wire.  `to` is "token" (POST accounts.spotify.com/api/token)
\* or "api" (GET api.spotify.com/v1<path>); the fields a kind does not use are Null.
TokenRequest(by, grant, code, verifier, refresh) ==
    [by |-> by, to |-> "token", grant_type |-> grant, code |-> code,
     code_verifier |-> verifier, refresh_token |-> refresh,
     path |-> Null, bearer |-> Null]

ApiRequest(by, path, bearer) ==
    [by |-> by, to |-> "api", grant_type |-> Null, code |-> Null,
     code_verifier |-> Null, refresh_token |-> Null,
     path |-> path, bearer |-> bearer]

RequestsOf(t, to) == {r \in inflight : r.by = t /\ r.to = to}


(***************************************************************************)
(* Task records                                                            *)
(***************************************************************************)
Tasks == {"silent", "profile", "lib"}

NoUrl == [code |-> Null, state |-> Null, iss |-> Null]

\* The URLs a page is loaded at.  The authorization server adds iss to the
\* redirect that carries a code.
Urls ==
    {u \in [code : Codes \cup {Null}, state : OAuthStates \cup {Null}, iss : {Null, "iss"}] :
        (u.iss = "iss") = (u.code = "c1")}

\* handleRedirectCallback: pc is "idle", "exchange" (suspended in the fetch of
\* exchangeCodeForToken), "returned" (ret is "true" or "false") or "thrown"
\* (err is the message); posts counts the token POSTs this call has sent.
\* got is the answer the call received to its request (NoResponse: none yet).
NoResponse == [kind |-> "none", json |-> NoJson]

CbIdle == [pc |-> "idle", ret |-> Null, err |-> Null, posts |-> 0, got |-> NoResponse]

CbReturned(v, n, resp) ==
    [pc |-> "returned", ret |-> v, err |-> Null, posts |-> n, got |-> resp]

CbThrown(e, n, resp) ==
    [pc |-> "thrown", ret |-> Null, err |-> e, posts |-> n, got |-> resp]

\* A task that goes through getValidAccessToken: pc is "idle", "refresh"
\* (suspended in the fetch of refreshAccessToken), "api" (suspended in the fetch
\* of apiFetch), "returned" or "thrown"; posts counts the token POSTs of the
\* current call; bearer is the token the call obtained.  The tasks: "silent" a
\* direct call of getValidAccessToken (App's silent refresh), "profile"
\* getCurrentUserProfile, "lib" the paged walks and getPlaylistsWithTracks.
\* got is the answer to the refresh request of the current call.
CallIdle ==
    [pc |-> "idle", ret |-> Null, err |-> Null, posts |-> 0,
     bearer |-> Null, got |-> NoResponse]

Pending(t) == call[t].pc \in {"refresh", "api"}

\* the two falsy values of `next`: null, and the field missing (undefined)
NullNext == [origin |-> Empty, res |-> Null, page |-> 0]
AbsentNext == [origin |-> Empty, res |-> "<undefined>", page |-> 0]

\* The spotifyApi call.  fn/arg: the exported function called and its argument;
\* walk: the walk function running; url, all: the walk's loop variables; sent,
\* pages: requests sent and pages consumed by the running walk; playlists,
\* result, k: the locals of getPlaylistsWithTracks (k the index of the playlist
\* whose tracks are fetched); liked: how the saved-tracks walk of the call ended;
\* log: the paths of the API requests the call has sent.
LibIdle ==
    [pc |-> "idle", fn |-> Null, arg |-> Null, walk |-> Null,
     url |-> NullNext, all |-> <<>>, sent |-> 0, pages |-> 0,
     playlists |-> <<>>, result |-> <<>>, k |-> 0, liked |-> "none",
     ret |-> <<>>, err |-> Null, log |-> <<>>]

LoginNone ==
    [pc |-> "none", err |-> Null, digest |-> <<>>, code_challenge |-> Null, state |-> Null]

\* App.  pc: "idle", "fetching" (fetchFromSpotify awaits Promise.all), "saving"
\* (it awaits savePlaylistsCache; the fetched data is on display), "done" (the
\* data is on display; err is the message if the save threw), or "failed"
\* (its catch ran before any data arrived; err is the message).  authed: isAuthed of the last
\* render, which decides whether the Fetch and Sign out buttons are there.
\* user: what getCurrentUserProfile resolved with.
AppIdle == [pc |-> "idle", authed |-> FALSE, user |-> [null |-> TRUE], err |-> Null]

\* Errors of fetch itself and of res.json(), which the code does not name
NetworkError == "TypeError: Failed to fetch"
JsonError == "SyntaxError: Unexpected token"

(***************************************************************************)
(* spotifyAuth: beginLogin                                                 *)
(***************************************************************************)
\* base64url(SHA-256(input)), kept symbolic: the digest of a verifier is a value
\* that names the verifier it was computed from.
sha256Base64Url(input) == <<"S256", input>>

\* The page has called window.location.assign and is unloading: its tasks are
\* gone and nothing runs until a page of the app is loaded again.
Away == login.pc = "assigned"

\* beginLogin from `if (!clientId)` on, given the verifier, the digest of it, the
\* challenge and the state it computes
BeginLoginWith(clientId, codeVerifier, digest, codeChallenge, state) ==
    /\ ~Away
    /\ IF ~Truthy(clientId)
       THEN /\ login' = [LoginNone EXCEPT !.pc = "thrown",
                                          !.err = "Missing VITE_SPOTIFY_CLIENT_ID"]
            /\ UNCHANGED <<ls, cb, call, inflight, lib>>
       ELSE /\ ls' = setItem(setItem(ls, LS_KEYS.codeVerifier, codeVerifier),
                             LS_KEYS.state, state)
            /\ login' = [pc |-> "assigned", err |-> Null,
                         digest |-> digest,
                         code_challenge |-> codeChallenge,
                         state |-> state]
            \* the navigation unloads the page and every task of it
            /\ cb' = CbIdle
            /\ call' = [t \in Tasks |-> CallIdle]
            /\ inflight' = {}
            /\ lib' = LibIdle
    /\ UNCHANGED <<now, href, srv, idb, cache, hist, app>>

\* beginLogin({clientId}): codeVerifier and state are the two random strings.
BeginLogin(clientId, codeVerifier, state) ==
    BeginLoginWith(clientId, codeVerifier, <<"SHA-256", codeVerifier>>,
                   sha256Base64Url(codeVerifier), state)

(***************************************************************************)
(* spotifyAuth: the strings of beginLogin, character by character          *)
(***************************************************************************)
VerifierBytes == 64     \* generateRandomString(64)
StateBytes == 16        \* generateRandomString(16)
DigestBytes == 32       \* a SHA-256 digest

CharAt(str, i) == SubSeq(str, i, i)

HexDigits == "0123456789abcdef"

\* Number.prototype.toString(16) of a byte
toString16(byte) ==
    IF byte < 16 THEN CharAt(HexDigits, byte + 1)
    ELSE CharAt(HexDigits, (byte \div 16) + 1) \o CharAt(HexDigits, (byte % 16) + 1)

\* String.prototype.slice(-2)
sliceLastTwo(str) == IF Len(str) <= 2 THEN str ELSE SubSeq(str, Len(str) - 1, Len(str))

\* ('0' + byte.toString(16)).slice(-2)
hexOfByte(byte) == sliceLastTwo("0" \o toString16(byte))

\* generateRandomString(length), array being the bytes crypto.getRandomValues
\* put into the Uint8Array(length)
RECURSIVE generateRandomString(_)
generateRandomString(array) ==
    IF array = <<>> THEN ""
    ELSE hexOfByte(Head(array)) \o generateRandomString(Tail(array))

Base64Alphabet == "ABCDEFGHIJKLMNOPQRSTUVWXYZabcdefghijklmnopqrstuvwxyz0123456789+/"

Base64Char(sextet) == CharAt(Base64Alphabet, sextet + 1)

\* btoa of the binary string of the bytes: three bytes make four characters, and
\* a last group of one or two bytes is padded with '='
RECURSIVE btoa(_)
btoa(bytes) ==
    IF Len(bytes) = 0 THEN ""
    ELSE IF Len(bytes) = 1
    THEN Base64Char(bytes[1] \div 4) \o Base64Char((bytes[1] % 4) * 16) \o "=="
    ELSE IF Len(bytes) = 2
    THEN Base64Char(bytes[1] \div 4)
            \o Base64Char((bytes[1] % 4) * 16 + (bytes[2] \div 16))
            \o Base64Char((bytes[2] % 16) * 4) \o "="
    ELSE Base64Char(bytes[1] \div 4)
            \o Base64Char((bytes[1] % 4) * 16 + (bytes[2] \div 16))
            \o Base64Char((bytes[2] % 16) * 4 + (bytes[3] \div 64))
            \o Base64Char(bytes[3] % 64)
            \o btoa(SubSeq(bytes, 4, Len(bytes)))

\* str.replace(/c/g, by) for a one-character pattern
RECURSIVE replaceAll(_, _, _)
replaceAll(str, c, by) ==
    IF Len(str) = 0 THEN ""
    ELSE (IF CharAt(str, 1) = c THEN by ELSE CharAt(str, 1))
            \o replaceAll(SubSeq(str, 2, Len(str)), c, by)

\* str.replace(/=+$/, '')
RECURSIVE stripPadding(_)
stripPadding(str) ==
    IF Len(str) > 0 /\ CharAt(str, Len(str)) = "="
    THEN stripPadding(SubSeq(str, 1, Len(str) - 1))
    ELSE str

uint8ToBase64UrlMut(uint8) == stripPadding(replaceAll(btoa(uint8), "+", "-"))

uint8ToBase64Url(uint8) ==
    stripPadding(replaceAll(replaceAll(btoa(uint8), "+", "-"), "/", "_"))

\* beginLogin({clientId}) with the bytes behind its strings: verifierBytes and
\* stateBytes are what crypto.getRandomValues yields, digest is the SHA-256 digest
\* crypto.subtle.digest returns for the verifier
BeginLoginBytes(clientId, verifierBytes, digest, stateBytes) ==
    BeginLoginWith(clientId, generateRandomString(verifierBytes), digest,
                   uint8ToBase64Url(digest), generateRandomString(stateBytes))

\* The app is loaded at a URL: the redirect back from the authorization server,
\* or any other URL someone opens.  A load starts a fresh page.
PageLoad(url) ==
    /\ href' = url
    /\ login' = LoginNone
    /\ cb' = CbIdle
    /\ call' = [t \in Tasks |-> CallIdle]
    /\ inflight' = {}
    /\ lib' = LibIdle
    /\ UNCHANGED <<ls, now, srv, idb, cache, hist, app>>

(***************************************************************************)
(* spotifyAuth: handleRedirectCallback / exchangeCodeForToken              *)
(***************************************************************************)
stateMismatchMut(state, storedState) ==
    Truthy(state) /\ Truthy(storedState) /\ state # storedState

stateMismatch(state, storedState) == ~Truthy(state) \/ state # storedState

exchangeVerifierMut(s) == IF Truthy(getItem(s, LS_KEYS.codeVerifier)) THEN "v1" ELSE Null

\* the code_verifier exchangeCodeForToken reads for the request body
exchangeVerifier(s) == getItem(s, LS_KEYS.codeVerifier)

\* window.history.replaceState with code, state and iss deleted from the URL
cleanedUrl(url) == [url EXCEPT !.code = Null, !.state = Null, !.iss = Null]

hasCodeMut(code) == code # Null

\* `if (!code) return false`: the URL carries a code when the parameter is a
\* non-empty string
hasCode(code) == Truthy(code)

\* handleRedirectCallback up to its first suspension
CbStart ==
    /\ ~Away
    /\ cb.pc # "exchange"
    /\ LET code == href.code
           state == href.state
           storedState == getItem(ls, LS_KEYS.state)
           codeVerifier == exchangeVerifier(ls)
       IN  IF ~hasCode(code)
           THEN cb' = CbReturned("false", 0, NoResponse) /\ UNCHANGED inflight
           ELSE IF stateMismatch(state, storedState)
           THEN cb' = CbThrown("State mismatch", 0, NoResponse) /\ UNCHANGED inflight
           ELSE IF ~Truthy(codeVerifier)
           THEN cb' = CbThrown("Missing PKCE code_verifier", 0, NoResponse) /\ UNCHANGED inflight
           ELSE /\ cb' = [CbIdle EXCEPT !.pc = "exchange", !.posts = 1]
                /\ inflight' = inflight \cup
                       {TokenRequest("cb", "authorization_code", code, codeVerifier, Null)}
    /\ UNCHANGED <<ls, now, href, login, call, lib, srv, idb, cache, hist, app>>

exchangeSettleMut(resp) ==
    CASE resp.kind = "netfail" -> [threw |-> TRUE, err |-> NetworkError]
      [] resp.kind = "badjson" -> [threw |-> TRUE, err |-> JsonError]
      [] OTHER -> [threw |-> FALSE, err |-> Null]

\* exchangeCodeForToken from the answer to its request on: whether it throws
\* (and what), or returns the parsed body
exchangeSettle(resp) ==
    CASE resp.kind = "netfail" -> [threw |-> TRUE, err |-> NetworkError]
      [] resp.kind = "status" -> [threw |-> TRUE, err |-> "Token exchange failed"]
      [] resp.kind = "badjson" -> [threw |-> TRUE, err |-> JsonError]
      [] resp.kind = "ok" -> [threw |-> FALSE, err |-> Null]

\* the token endpoint answers the authorization-code exchange
CbResponse(resp) ==
    /\ cb.pc = "exchange"
    /\ \E r \in inflight :
          /\ r.by = "cb" /\ r.to = "token"
          /\ inflight' = inflight \ {r}
          /\ LET h == IF hist.audit /\ ~exchangeSettle(resp).threw
                      THEN [hist EXCEPT
                               !.consumed = @ \cup {[codeVerifier |-> r.code_verifier,
                                                     state |-> href.state]},
                               !.signedOut = FALSE]
                      ELSE hist
             IN  hist' = IF exchangeSettle(resp).threw THEN h
                         ELSE storeWriters(h, resp.json)
    /\ IF exchangeSettle(resp).threw
       THEN cb' = CbThrown(exchangeSettle(resp).err, cb.posts, resp) /\ UNCHANGED <<ls, href>>
       ELSE /\ ls' = storeTokenResponse(ls, resp.json, now)
            /\ href' = cleanedUrl(href)
            /\ cb' = CbReturned("true", cb.posts, resp)
    /\ UNCHANGED <<now, login, call, lib, srv, idb, cache, app>>

(***************************************************************************)
(* spotifyAuth: getValidAccessToken / refreshAccessToken / clearTokens     *)
(***************************************************************************)
gvatStartMut(s, t) ==
    LET token == getStoredAccessToken(s, t)
        refreshToken == getItem(s, LS_KEYS.refreshToken)
    IN  IF Truthy(token) THEN [kind |-> "token", token |-> token, refresh |-> Null]
        ELSE [kind |-> "post", token |-> Null, refresh |-> refreshToken]

gvatStartStaleMut(s, t) ==
    LET token == getItem(s, LS_KEYS.token)
        refreshToken == getItem(s, LS_KEYS.refreshToken)
    IN  IF Truthy(token) THEN [kind |-> "token", token |-> token, refresh |-> Null]
        ELSE IF ~Truthy(refreshToken) THEN [kind |-> "null", token |-> Null, refresh |-> Null]
        ELSE [kind |-> "post", token |-> Null, refresh |-> refreshToken]

\* getValidAccessToken up to its first suspension: "token" it returns the stored
\* token, "null" refreshAccessToken returns null without a request, "post"
\* refreshAccessToken sends the refresh request and suspends.
gvatStart(s, t) ==
    LET token == getStoredAccessToken(s, t)
        refreshToken == getItem(s, LS_KEYS.refreshToken)
    IN  IF Truthy(token) THEN [kind |-> "token", token |-> token, refresh |-> Null]
        ELSE IF ~Truthy(refreshToken) THEN [kind |-> "null", token |-> Null, refresh |-> Null]
        ELSE [kind |-> "post", token |-> Null, refresh |-> refreshToken]

refreshSettleMut(resp) ==
    CASE resp.kind = "ok" ->
           [threw |-> FALSE, err |-> Null, store |-> TRUE, ret |-> Null]
      [] resp.kind = "status" ->
           [threw |-> FALSE, err |-> Null, store |-> FALSE, ret |-> Null]
      [] resp.kind = "netfail" ->
           [threw |-> TRUE, err |-> NetworkError, store |-> FALSE, ret |-> Null]
      [] resp.kind = "badjson" ->
           [threw |-> TRUE, err |-> JsonError, store |-> FALSE, ret |-> Null]

\* refreshAccessToken from the answer to its request on: whether it throws, whether
\* it calls storeTokenResponse, and what it returns.
refreshSettle(resp) ==
    CASE resp.kind = "ok" ->
           [threw |-> FALSE, err |-> Null, store |-> TRUE,
            ret |-> IF Truthy(resp.json.access_token) THEN resp.json.access_token ELSE Null]
      [] resp.kind = "status" ->
           [threw |-> FALSE, err |-> Null, store |-> FALSE, ret |-> Null]
      [] resp.kind = "netfail" ->
           [threw |-> TRUE, err |-> NetworkError, store |-> FALSE, ret |-> Null]
      [] resp.kind = "badjson" ->
           [threw |-> TRUE, err |-> JsonError, store |-> FALSE, ret |-> Null]

RefreshRequest(t, refreshToken) == TokenRequest(t, "refresh_token", Null, Null, refreshToken)

\* App's silent refresh at start-up, or any direct call: getValidAccessToken()
GvatStart ==
    /\ ~Away
    /\ ~Pending("silent")
    /\ LET o == gvatStart(ls, now)
       IN  CASE o.kind = "token" ->
                  /\ call' = [call EXCEPT !["silent"] =
                                 [CallIdle EXCEPT !.pc = "returned", !.ret = o.token]]
                  /\ UNCHANGED inflight
             [] o.kind = "null" ->
                  /\ call' = [call EXCEPT !["silent"] = [CallIdle EXCEPT !.pc = "returned"]]
                  /\ UNCHANGED inflight
             [] o.kind = "post" ->
                  /\ call' = [call EXCEPT !["silent"] =
                                 [CallIdle EXCEPT !.pc = "refresh", !.posts = 1]]
                  /\ inflight' = inflight \cup {RefreshRequest("silent", o.refresh)}
    /\ UNCHANGED <<ls, now, href, login, cb, lib, srv, idb, cache, hist, app>>

\* the token endpoint answers the refresh request of the direct call
GvatResponse(resp) ==
    /\ call["silent"].pc = "refresh"
    /\ \E r \in inflight :
          /\ r.by = "silent" /\ r.to = "token"
          /\ inflight' = inflight \ {r}
    /\ LET o == refreshSettle(resp)
       IN  /\ ls' = IF o.store THEN storeTokenResponse(ls, resp.json, now) ELSE ls
           /\ hist' = IF o.store THEN storeWriters(hist, resp.json) ELSE hist
           /\ call' = [call EXCEPT !["silent"] =
                          IF o.threw
                          THEN [@ EXCEPT !.pc = "thrown", !.err = o.err, !.got = resp]
                          ELSE [@ EXCEPT !.pc = "returned", !.ret = o.ret, !.got = resp]]
    /\ UNCHANGED <<now, href, login, cb, lib, srv, idb, cache, app>>

\* the Sign out button: clearTokens()
ClearTokens ==
    /\ ~Away
    /\ ls' = clearTokensStore(ls)
    /\ hist' = LET h == IF hist.audit THEN [hist EXCEPT !.signedOut = TRUE] ELSE hist
               IN  IF h.writers = "off" THEN h ELSE [h EXCEPT !.writers = "same"]
    /\ UNCHANGED <<now, href, login, cb, call, inflight, lib, srv, idb, cache, app>>

\* time passes
Tick ==
    /\ now < MaxNow
    /\ now' = now + TickMs
    /\ UNCHANGED <<ls, href, login, cb, call, inflight, lib, srv, idb, cache, hist, app>>

(***************************************************************************)
(* The Spotify Web API as spotifyApi sees it                               *)
(***************************************************************************)
API_ORIGIN == "https://api.spotify.com/v1"

\* The URL of one page of a paged resource.  A first URL is relative and built by
\* the walk; the `next` of a served page is absolute.  `limit` and `offset` are
\* kept as the page number.
ApiUrl(origin, res, page) == [origin |-> origin, res |-> res, page |-> page]

UrlTruthy(url) == url.page # 0

\* url.replace('https://api.spotify.com/v1', '')
stripOrigin(url) == [url EXCEPT !.origin = Empty]

PlaylistsPath == "/me/playlists"
SavedTracksPath == "/me/tracks"
PlaylistTracksPath(playlistId) == "/playlists/" \o playlistId \o "/tracks"

\* property access on a JSON object: a missing (or null) string property is Null
Has(obj, f) == f \in DOMAIN obj
Get(obj, f) == IF f \in DOMAIN obj THEN obj[f] ELSE Null

\* Playlist objects of GET /me/playlists
PlaylistObjs ==
    << [id |-> "p1", name |-> "Mix", snapshot_id |-> "x1",
        owner |-> [id |-> "u1", display_name |-> "Ann"]],
       [id |-> "p2", name |-> "Road", snapshot_id |-> "x2",
        owner |-> [id |-> "u2"]],
       [id |-> "p3", name |-> "Old", snapshot_id |-> "x3"] >>

\* Items of GET /me/tracks and GET /playlists/{id}/tracks; the third is an item
\* whose track is null (a track that was removed from the catalogue).
TrackItems ==
    << [added_at |-> "2020-01-01", is_local |-> "false",
        track |-> [name |-> "Song A", uri |-> "spotify:track:a", duration_ms |-> 1000,
                   popularity |-> 5, album |-> [name |-> "LP", id |-> "al1"],
                   artists |-> <<[name |-> "X", id |-> "ar1"]>>]],
       [added_at |-> "2021-01-01", is_local |-> "false",
        track |-> [name |-> "Song B", uri |-> "spotify:track:b", duration_ms |-> 2000,
                   popularity |-> 1, album |-> [name |-> "EP", id |-> "al2"],
                   artists |-> <<[name |-> "X", id |-> "ar1"], [name |-> "Y", id |-> "ar2"]>>]],
       [added_at |-> "2022-01-01", is_local |-> "true"] >>

\* the first truthy of a list of string values, else the default: a || b || d
RECURSIVE FirstTruthy(_, _)
FirstTruthy(vs, d) ==
    IF vs = <<>> THEN d
    ELSE IF Truthy(Head(vs)) THEN Head(vs) ELSE FirstTruthy(Tail(vs), d)

\* sanitizeTrack for the shapes the Web API serves (artists an array of objects,
\* album an object).  duration_ms is a number or null: null is kept as 0, which
\* `||` treats like null.
sanitizeTrack(item) ==
    LET track == IF Has(item, "track") THEN item.track ELSE item
        rawArtists == IF Has(track, "artists") THEN track.artists ELSE <<>>
        names == [i \in 1..Len(rawArtists) |-> Get(rawArtists[i], "name")]
        num(obj, f) == IF f \in DOMAIN obj THEN obj[f] ELSE 0
    IN  [name |-> FirstTruthy(<<Get(track, "name"), Get(item, "title"), Get(item, "name")>>,
                              "Unknown"),
         artists |-> SelectSeq(names, Truthy),
         album |-> IF Has(track, "album") THEN Get(track.album, "name") ELSE Null,
         added_at |-> FirstTruthy(<<Get(item, "added_at"), Get(item, "addedAt"),
                                    Get(track, "added_at")>>, Null),
         uri |-> FirstTruthy(<<Get(track, "uri"), Get(item, "uri")>>, Null),
         duration_ms |-> IF num(track, "duration_ms") # 0 THEN num(track, "duration_ms")
                         ELSE num(item, "duration_ms")]

\* What the server holds for a resource: the sizes of its pages, in order (-1: the
\* page has no `items` field), and how the last page ends ("null": next is null,
\* "absent": it has no next field).  The items are the resource's items in their
\* server order, dealt onto the pages.
Catalogue(res) == IF res = PlaylistsPath THEN PlaylistObjs ELSE TrackItems

ItemAt(res, n) == Catalogue(res)[((n - 1) % Len(Catalogue(res))) + 1]

RECURSIVE SumSizes(_)
SumSizes(sizes) ==
    IF sizes = <<>> THEN 0
    ELSE (IF Head(sizes) < 0 THEN 0 ELSE Head(sizes)) + SumSizes(Tail(sizes))

PageItems(res, sizes, i) ==
    LET before == SumSizes(SubSeq(sizes, 1, i - 1))
        n == IF sizes[i] < 0 THEN 0 ELSE sizes[i]
    IN  [j \in 1..n |-> ItemAt(res, before + j)]

\* the body of the i-th page of resource res
ServedPage(res, i) ==
    LET c == srv[res]
    IN  [hasItems |-> c.sizes[i] >= 0,
         items |-> PageItems(res, c.sizes, i),
         next |-> IF i < Len(c.sizes) THEN ApiUrl(API_ORIGIN, res, i + 1)
                  ELSE IF c.ending = "null" THEN NullNext ELSE AbsentNext]

Serves(path) == path.res \in DOMAIN srv /\ path.page \in 1..Len(srv[path.res].sizes)

\* Answers of the resource API: "ok" a 2xx answer whose body is the page asked
\* for, "status" a non-2xx answer with a text body, "netfail" fetch rejects,
\* "badjson" res.json() rejects on a 2xx answer.
ApiResponses ==
    {[kind |-> "ok", status |-> 200, text |-> Empty]}
        \cup [kind : {"status"}, status : {401, 500}, text : {"boom"}]
        \cup [kind : {"netfail", "badjson"}, status : {0}, text : {Empty}]

NotAuthenticated == "Not authenticated with Spotify"

\* what apiFetch throws for an answer, Null when it returns res.json()
apiError(resp) ==
    CASE resp.kind = "netfail" -> NetworkError
      [] resp.kind = "badjson" -> JsonError
      [] resp.kind = "status" /\ resp.status = 401 -> "Unauthorized"
      [] resp.kind = "status" ->
             "Spotify API error " \o ToString(resp.status) \o ": " \o resp.text
      [] OTHER -> Null

(***************************************************************************)
(* spotifyApi: the paged walks and getPlaylistsWithTracks                  *)
(***************************************************************************)
WalkFns == {"getAllCurrentUserPlaylists", "getAllSavedTracks", "getAllPlaylistTracks"}

firstUrl(walk, playlistId) ==
    CASE walk = "getAllCurrentUserPlaylists" -> ApiUrl(Empty, PlaylistsPath, 1)
      [] walk = "getAllSavedTracks" -> ApiUrl(Empty, SavedTracksPath, 1)
      [] walk = "getAllPlaylistTracks" -> ApiUrl(Empty, PlaylistTracksPath(playlistId), 1)

\* a walk function is entered: `let url = ...; const all = []`
walkStart(l, walk, playlistId) ==
    [l EXCEPT !.walk = walk, !.url = firstUrl(walk, playlistId), !.all = <<>>,
              !.sent = 0, !.pages = 0]

\* (page.items || []) mapped as the walk maps them
mappedItems(walk, page) ==
    LET items == IF page.hasItems THEN page.items ELSE <<>>
    IN  IF walk = "getAllCurrentUserPlaylists" THEN items
        ELSE [i \in 1..Len(items) |-> sanitizeTrack(items[i])]

likedEntry(liked) ==
    [id |-> "liked-songs-virtual", name |-> "liked songs *", owner |-> Null,
     tracks |-> liked, raw |-> [type |-> "virtual", source |-> "liked_songs"]]

playlistEntry(p, tracks) ==
    [id |-> p.id, name |-> p.name,
     owner |-> IF Has(p, "owner")
               THEN FirstTruthy(<<Get(p.owner, "display_name"), Get(p.owner, "id")>>, Null)
               ELSE Null,
     tracks |-> tracks,
     raw |-> IF Has(p, "owner")
             THEN [owner |-> [id |-> Get(p.owner, "id"),
                              display_name |-> Get(p.owner, "display_name")]]
             ELSE [x \in {} |-> Null]]

\* `for (const p of playlists)` from its k-th turn on
tracksLoop(l, k) ==
    IF k > Len(l.playlists)
    THEN [l EXCEPT !.pc = "returned", !.ret = l.result, !.k = k]
    ELSE walkStart([l EXCEPT !.k = k], "getAllPlaylistTracks", l.playlists[k].id)

\* the running walk returns `all` to the function that called it
walkReturn(l) ==
    IF l.fn # "getPlaylistsWithTracks"
    THEN [l EXCEPT !.pc = "returned", !.ret = l.all]
    ELSE CASE l.walk = "getAllCurrentUserPlaylists" ->
                walkStart([l EXCEPT !.playlists = l.all, !.result = <<>>],
                          "getAllSavedTracks", Null)
           [] l.walk = "getAllSavedTracks" ->
                tracksLoop([l EXCEPT !.result = Append(l.result, likedEntry(l.all)),
                                     !.liked = "ok"], 1)
           [] l.walk = "getAllPlaylistTracks" ->
                tracksLoop([l EXCEPT !.result =
                                Append(l.result, playlistEntry(l.playlists[l.k], l.all))],
                           l.k + 1)

walkThrowMut(l, e) == [l EXCEPT !.pc = "thrown", !.err = e]

walkThrowSkipMut(l, e) ==
    IF l.fn = "getPlaylistsWithTracks" /\ l.walk = "getAllSavedTracks"
    THEN tracksLoop([l EXCEPT !.liked = "failed"], 1)
    ELSE IF l.fn = "getPlaylistsWithTracks" /\ l.walk = "getAllPlaylistTracks"
    THEN tracksLoop(l, l.k + 1)
    ELSE [l EXCEPT !.pc = "thrown", !.err = e]

\* apiFetch throws e inside the running walk: getPlaylistsWithTracks catches it
\* around getAllSavedTracks only
walkThrow(l, e) ==
    IF l.fn = "getPlaylistsWithTracks" /\ l.walk = "getAllSavedTracks"
    THEN tracksLoop([l EXCEPT !.liked = "failed"], 1)
    ELSE [l EXCEPT !.pc = "thrown", !.err = e]

walkPageMut(l, page) ==
    LET l1 == [l EXCEPT !.all = mappedItems(l.walk, page) \o l.all,
                        !.url = page.next, !.pages = @ + 1]
    IN  IF UrlTruthy(page.next) THEN l1 ELSE walkReturn(l1)

\* the loop body after `await apiFetch(...)` resolved with page, and the loop test
walkPage(l, page) ==
    LET l1 == [l EXCEPT !.all = l.all \o mappedItems(l.walk, page),
                        !.url = page.next, !.pages = @ + 1]
    IN  IF UrlTruthy(page.next) THEN l1 ELSE walkReturn(l1)

settleMut(l, s, t) == l

\* While the call is running it is about to call apiFetch(url).  With no token to
\* get (store s, time t), apiFetch throws at once, and so does every apiFetch the
\* call goes on to make in the same run.
RECURSIVE settle(_, _, _)
settle(l, s, t) ==
    IF l.pc = "running" /\ gvatStart(s, t).kind = "null"
    THEN settle(walkThrow(l, NotAuthenticated), s, t)
    ELSE l

pageRequestsMut(by, url, bearer) ==
    {ApiRequest(by, stripOrigin(url), bearer),
     ApiRequest(by, [stripOrigin(url) EXCEPT !.page = @ + 1], bearer)}

\* the fetch of apiFetch for the walk's url
pageRequests(by, url, bearer) == {ApiRequest(by, stripOrigin(url), bearer)}

(***************************************************************************)
(* cacheDb: the playlists cache in IndexedDB, mirrored into localStorage   *)
(***************************************************************************)
PLAYLISTS_KEY == "playlistsWithTracks"
BACKUP_KEY == "playlistory_cache_backup_v1"

\* JS null where an object is expected
NullObject == [null |-> TRUE]

ObjTruthy(o) == o # NullObject

\* the object store before anything was put into it
EmptyDb == [k \in {} |-> NullObject]

\* `request.result || null` of store.get(key)
getRecord(db, key) == IF key \in DOMAIN db THEN db[key] ELSE NullObject

putRecordMut(db, record) ==
    IF record.key \in DOMAIN db THEN db
    ELSE [k \in (DOMAIN db) \cup {record.key} |-> IF k = record.key THEN record ELSE db[k]]

\* store.put(record): the store's keyPath is 'key'
putRecord(db, record) ==
    [k \in (DOMAIN db) \cup {record.key} |-> IF k = record.key THEN record ELSE db[k]]

\* store.clear()
clearAll(db) == [k \in {} |-> NullObject]

\* How the IndexedDB part of a call ends: "ok", "openfail" (indexedDB.open fires
\* onerror: openDb rejects) or "reqfail" (the request fires onerror).  openDb and
\* the request are one suspension: the code between them only uses the handle.
IdbOutcomes == {"ok", "openfail", "reqfail"}

\* how a localStorage call of the backup tier ends: "ok", or "fail" (it throws);
\* "none": the call was not made
LsOutcomes == {"ok", "fail"}

OpenError == "DOMException: open"
RequestError == "DOMException: request"

idbError(outcome) == IF outcome = "openfail" THEN OpenError ELSE RequestError

cacheRecordMut(playlists, user, t) ==
    [key |-> PLAYLISTS_KEY, data |-> playlists, user |-> user, createdAt |-> t]

\* the record savePlaylistsCache builds, t being Date.now()
cacheRecord(playlists, user, t) ==
    [key |-> PLAYLISTS_KEY,
     data |-> playlists,
     user |-> IF ObjTruthy(user)
              THEN [id |-> FirstTruthy(<<Get(user, "id")>>, Null),
                    display_name |-> FirstTruthy(<<Get(user, "display_name")>>, Null)]
              ELSE NullObject,
     createdAt |-> t]

\* the backup object of a record (`record.user || null` is record.user)
backupOf(record) ==
    [data |-> record.data, user |-> record.user, createdAt |-> record.createdAt]

\* JSON.stringify / JSON.parse of a backup object.  The object holds strings,
\* numbers, null, arrays and plain objects only; the text is kept as the value it
\* encodes, tagged as text.
JSON_stringify(v) == [json |-> v]
JSON_parse(text) == text.json

\* `parsed && parsed.data`: data is an array, truthy also when empty
dataTruthy(data) == TRUE

\* what loadPlaylistsCache returns for a record of the primary store
loadResult(record) ==
    [playlists |-> record.data, user |-> record.user, createdAt |-> record.createdAt]

fallbackResultMut(s, fb) == NullObject

\* the fallback branch of loadPlaylistsCache on store s; fb: how getItem ends
fallbackResult(s, fb) ==
    IF fb # "ok" THEN NullObject
    ELSE IF BACKUP_KEY \notin DOMAIN s THEN NullObject
    ELSE LET parsed == JSON_parse(s[BACKUP_KEY])
         IN  IF dataTruthy(parsed.data)
             THEN [playlists |-> parsed.data, user |-> parsed.user,
                   createdAt |-> parsed.createdAt]
             ELSE NullObject

\* The calls of cacheDb.  pc is "idle", "pending" (suspended in IndexedDB),
\* "returned" or "thrown"; args, record: the arguments of savePlaylistsCache and
\* the record it built, locals that are gone when the call ends; primary,
\* fallback: how the call's IndexedDB part and its localStorage call ended
\* ("none": not reached); afterPurge: the pending call began after a purge
\* completed and no save has written since.
CacheTasks == {"save", "load", "purge"}

NoSave == NullObject

\* audit: the specification also records the history of the session: consumed,
\* the PKCE material (verifier and state) successful exchanges were made with,
\* and signedOut, clearTokens ran and no exchange has succeeded since; latest:
\* the last save that resolved since the last purge that resolved.  writers:
\* "off", or whether one call of storeTokenResponse wrote both the stored
\* access token and the stored expiry ("same") or not ("split")
NoHist ==
    [lastSave |-> NoSave, mirror |-> NoSave, sincePurge |-> FALSE,
     audit |-> FALSE, consumed |-> {}, signedOut |-> FALSE, latest |-> NoSave,
     writers |-> "off"]

NoArgs == [playlists |-> <<>>, user |-> NullObject]

CacheIdle ==
    [pc |-> "idle", args |-> NoArgs, record |-> NullObject, ret |-> NullObject,
     err |-> Null, primary |-> "none", fallback |-> "none", afterPurge |-> FALSE]

CachePending(t) == cache[t].pc = "pending"

\* savePlaylistsCache(playlists, user) up to `await putRecord(record)`
SaveStart(playlists, user) ==
    /\ ~CachePending("save")
    /\ cache' = [cache EXCEPT !["save"] =
                    [CacheIdle EXCEPT !.pc = "pending",
                                      !.args = [playlists |-> playlists, user |-> user],
                                      !.record = cacheRecord(playlists, user, now)]]
    /\ UNCHANGED <<ls, now, href, login, cb, call, inflight, lib, srv, idb, hist, app>>

saveSettleMut(record, outcome, fb) ==
    IF outcome # "ok"
    THEN [threw |-> TRUE, err |-> idbError(outcome), put |-> FALSE, mirror |-> FALSE,
          ret |-> NullObject]
    ELSE IF fb # "ok"
    THEN [threw |-> TRUE, err |-> "QuotaExceededError", put |-> TRUE, mirror |-> FALSE,
          ret |-> NullObject]
    ELSE [threw |-> FALSE, err |-> Null, put |-> TRUE, mirror |-> TRUE,
          ret |-> [createdAt |-> record.createdAt]]

\* savePlaylistsCache from the end of putRecord on: whether it throws, whether the
\* record was put, whether the backup was written, and what it returns
saveSettle(record, outcome, fb) ==
    IF outcome # "ok"
    THEN [threw |-> TRUE, err |-> idbError(outcome), put |-> FALSE, mirror |-> FALSE,
          ret |-> NullObject]
    ELSE [threw |-> FALSE, err |-> Null, put |-> TRUE, mirror |-> fb = "ok",
          ret |-> [createdAt |-> record.createdAt]]

\* putRecord ends; on success the backup is written (fb: how setItem ends)
SaveSettle(outcome, fb) ==
    /\ CachePending("save")
    /\ (fb = "none") = (outcome # "ok")
    /\ LET c == cache["save"]
           o == saveSettle(c.record, outcome, fb)
           \* the save as its caller sees it: the arguments and the createdAt returned
           g == [playlists |-> c.args.playlists, user |-> c.args.user,
                 createdAt |-> IF o.threw THEN 0 ELSE o.ret.createdAt]
       IN  /\ idb' = IF o.put THEN putRecord(idb, c.record) ELSE idb
           /\ ls' = IF o.mirror
                    THEN setItem(ls, BACKUP_KEY, JSON_stringify(backupOf(c.record)))
                    ELSE ls
           /\ hist' = IF ~o.put THEN hist
                      ELSE [hist EXCEPT
                               !.lastSave = g,
                               !.mirror = IF o.mirror THEN g ELSE @,
                               !.sincePurge = FALSE,
                               !.latest = IF hist.audit /\ ~o.threw THEN g ELSE @]
           /\ cache' = [cache EXCEPT !["save"] =
                           [CacheIdle EXCEPT !.pc = IF o.threw THEN "thrown" ELSE "returned",
                                             !.err = o.err, !.ret = o.ret,
                                             !.primary = outcome, !.fallback = fb]]
           \* fetchFromSpotify after `await savePlaylistsCache(...)`
           \* (setNormalized ran before the save: the data stays on display and
           \* the buttons stay hidden whether or not the save threw)
           /\ app' = IF app.pc # "saving" THEN app
                     ELSE [app EXCEPT !.pc = "done", !.err = o.err]
    /\ UNCHANGED <<now, href, login, cb, call, inflight, lib, srv>>

\* loadPlaylistsCache() up to `await getRecord(PLAYLISTS_KEY)`
LoadStart ==
    /\ ~CachePending("load")
    /\ cache' = [cache EXCEPT !["load"] =
                    [CacheIdle EXCEPT !.pc = "pending", !.afterPurge = hist.sincePurge]]
    /\ UNCHANGED <<ls, now, href, login, cb, call, inflight, lib, srv, idb, hist, app>>

\* loadPlaylistsCache from the end of getRecord on
loadSettle(db, s, outcome, fb) ==
    IF outcome # "ok"
    THEN [threw |-> TRUE, err |-> idbError(outcome), ret |-> NullObject]
    ELSE IF ObjTruthy(getRecord(db, PLAYLISTS_KEY))
    THEN [threw |-> FALSE, err |-> Null, ret |-> loadResult(getRecord(db, PLAYLISTS_KEY))]
    ELSE [threw |-> FALSE, err |-> Null, ret |-> fallbackResult(s, fb)]

\* getRecord ends; with no record the backup is read (fb: how getItem ends)
LoadSettle(outcome, fb) ==
    /\ CachePending("load")
    /\ (fb = "none") = (outcome # "ok" \/ ObjTruthy(getRecord(idb, PLAYLISTS_KEY)))
    /\ LET o == loadSettle(idb, ls, outcome, fb)
       IN  cache' = [cache EXCEPT !["load"] =
                        [CacheIdle EXCEPT !.pc = IF o.threw THEN "thrown" ELSE "returned",
                                          !.err = o.err, !.ret = o.ret,
                                          !.primary = outcome, !.fallback = fb]]
    /\ UNCHANGED <<ls, now, href, login, cb, call, inflight, lib, srv, idb, hist, app>>

\* purgeCache() up to `await clearAll()`
PurgeStart ==
    /\ ~CachePending("purge")
    /\ cache' = [cache EXCEPT !["purge"] = [CacheIdle EXCEPT !.pc = "pending"]]
    /\ UNCHANGED <<ls, now, href, login, cb, call, inflight, lib, srv, idb, hist, app>>

\* purgeCache from the end of clearAll on: whether it throws, whether the store
\* was cleared, whether the backup was removed
purgeSettle(outcome, fb) ==
    IF outcome # "ok"
    THEN [threw |-> TRUE, err |-> idbError(outcome), clear |-> FALSE, remove |-> FALSE]
    ELSE [threw |-> FALSE, err |-> Null, clear |-> TRUE, remove |-> fb = "ok"]

\* clearAll ends; on success the backup is removed (fb: how removeItem ends)
PurgeSettle(outcome, fb) ==
    /\ CachePending("purge")
    /\ (fb = "none") = (outcome # "ok")
    /\ LET o == purgeSettle(outcome, fb)
       IN  /\ idb' = IF o.clear THEN clearAll(idb) ELSE idb
           /\ ls' = IF o.remove THEN removeItem(ls, BACKUP_KEY) ELSE ls
           /\ hist' = [hist EXCEPT
                          !.lastSave = IF o.clear THEN NoSave ELSE @,
                          !.mirror = IF o.remove THEN NoSave ELSE @,
                          !.sincePurge = @ \/ ~o.threw,
                          !.latest = IF ~o.threw THEN NoSave ELSE @]
           /\ cache' = [cache EXCEPT !["purge"] =
                           [CacheIdle EXCEPT !.pc = IF o.threw THEN "thrown" ELSE "returned",
                                             !.err = o.err,
                                             !.primary = outcome, !.fallback = fb]]
    /\ UNCHANGED <<now, href, login, cb, call, inflight, lib, srv, app>>

\* the browser discards the origin's IndexedDB data (storage eviction, private
\* mode): the case the backup is kept for
Evict ==
    /\ idb # EmptyDb
    /\ idb' = EmptyDb
    /\ hist' = [hist EXCEPT !.lastSave = NoSave]
    /\ UNCHANGED <<ls, now, href, login, cb, call, inflight, lib, srv, cache, app>>

\* the cache before its first use
NoCache ==
    /\ idb = EmptyDb
    /\ cache = [t \in CacheTasks |-> CacheIdle]
    /\ hist = NoHist
    /\ app = AppIdle


(***************************************************************************)
(* App: fetchFromSpotify, and the calls of spotifyApi it awaits            *)
(***************************************************************************)
\* sanitizeTrack for a track that sanitizeTrack made: it has no `track`, its
\* artists are strings and its album is a string or null
sanitizeStoredTrack(item) ==
    [name |-> FirstTruthy(<<Get(item, "name"), Get(item, "title"), Get(item, "name")>>,
                          "Unknown"),
     artists |-> SelectSeq(item.artists, Truthy),
     album |-> Get(item, "album"),
     added_at |-> FirstTruthy(<<Get(item, "added_at"), Get(item, "addedAt"),
                                Get(item, "added_at")>>, Null),
     uri |-> FirstTruthy(<<Get(item, "uri"), Get(item, "uri")>>, Null),
     duration_ms |-> item.duration_ms]

sanitizePlaylistsForStorageMut(playlists) == playlists

\* sanitizePlaylistsForStorage for the array getPlaylistsWithTracks returns
sanitizePlaylistsForStorage(playlists) ==
    [i \in 1..Len(playlists) |->
        LET p == playlists[i]
            rawOwner == IF Has(p, "raw") /\ Has(p.raw, "owner")
                        THEN FirstTruthy(<<Get(p.raw.owner, "display_name"),
                                           Get(p.raw.owner, "id")>>, Null)
                        ELSE Null
        IN  [id |-> FirstTruthy(<<Get(p, "id")>>, Null),
             name |-> FirstTruthy(<<Get(p, "name")>>, "Untitled playlist"),
             owner |-> FirstTruthy(<<Get(p, "owner"), Get(p, "user"), rawOwner>>, Null),
             tracks |-> [j \in 1..Len(p.tracks) |-> sanitizeStoredTrack(p.tracks[j])]]]

\* `!!getStoredAccessToken()` as a render computes it
isAuthed(s, t) == Truthy(getStoredAccessToken(s, t))

FetchResumeMut(a) ==
    IF a.pc # "fetching"
    THEN app' = a /\ cache' = cache
    ELSE IF call'["profile"].pc = "thrown" \/ lib'.pc = "thrown"
    THEN /\ app' = [a EXCEPT !.pc = "failed", !.authed = isAuthed(ls', now)]
         /\ cache' = [cache EXCEPT !["save"] =
                         [CacheIdle EXCEPT
                             !.pc = "pending",
                             !.args = [playlists |-> <<>>, user |-> a.user],
                             !.record = cacheRecord(<<>>, a.user, now)]]
    ELSE IF call'["profile"].pc = "returned" /\ lib'.pc = "returned"
    THEN /\ app' = [a EXCEPT !.pc = "saving", !.authed = isAuthed(ls', now)]
         /\ cache' = [cache EXCEPT !["save"] =
                         [CacheIdle EXCEPT
                             !.pc = "pending",
                             !.args = [playlists |-> sanitizePlaylistsForStorage(lib'.ret),
                                       user |-> a.user],
                             !.record = cacheRecord(sanitizePlaylistsForStorage(lib'.ret),
                                                    a.user, now)]]
    ELSE app' = a /\ cache' = cache

\* fetchFromSpotify, being in state a, after a step of the calls it awaits:
\* Promise.all rejects with the first rejection and the catch runs; it resolves
\* when both calls have returned, and the function goes on to its
\* `await savePlaylistsCache(sanitizedForCache, user || null)`.
FetchResume(a) ==
    IF a.pc # "fetching"
    THEN app' = a /\ cache' = cache
    ELSE IF call'["profile"].pc = "thrown" \/ lib'.pc = "thrown"
    THEN /\ app' = [a EXCEPT !.pc = "failed",
                             !.err = IF call'["profile"].pc = "thrown"
                                     THEN call'["profile"].err ELSE lib'.err,
                             !.authed = isAuthed(ls', now)]
         /\ cache' = cache
    ELSE IF call'["profile"].pc = "returned" /\ lib'.pc = "returned"
    THEN /\ app' = [a EXCEPT !.pc = "saving", !.authed = isAuthed(ls', now)]
         /\ cache' = [cache EXCEPT !["save"] =
                         [CacheIdle EXCEPT
                             !.pc = "pending",
                             !.args = [playlists |-> sanitizePlaylistsForStorage(lib'.ret),
                                       user |-> a.user],
                             !.record = cacheRecord(sanitizePlaylistsForStorage(lib'.ret),
                                                    a.user, now)]]
    ELSE app' = a /\ cache' = cache

\* The call runs on from l, with store s and the requests infl in flight, to its
\* next suspension: in the fetch of apiFetch, in the fetch of refreshAccessToken,
\* or it has returned or thrown.
LibRunFrom(l, s, infl, c) ==
    LET l2 == settle(l, s, now)
        o == gvatStart(s, now)
    IN  IF l2.pc # "running"
        THEN /\ lib' = l2
             /\ call' = [c EXCEPT !["lib"] = CallIdle]
             /\ inflight' = infl
        ELSE IF o.kind = "token"
        THEN /\ lib' = [l2 EXCEPT !.log = Append(@, stripOrigin(l2.url)), !.sent = @ + 1]
             /\ call' = [c EXCEPT !["lib"] =
                            [CallIdle EXCEPT !.pc = "api", !.bearer = o.token]]
             /\ inflight' = infl \cup pageRequests("lib", l2.url, o.token)
        ELSE /\ lib' = l2
             /\ call' = [c EXCEPT !["lib"] = [CallIdle EXCEPT !.pc = "refresh", !.posts = 1]]
             /\ inflight' = infl \cup {RefreshRequest("lib", o.refresh)}

LibRun(l, s, infl) == LibRunFrom(l, s, infl, call)

\* an exported function of spotifyApi is called
LibCall(fn, arg) ==
    /\ ~Away
    /\ lib.pc # "running"
    /\ LET l0 == [LibIdle EXCEPT !.pc = "running", !.fn = fn, !.arg = arg]
           l1 == IF fn = "getPlaylistsWithTracks"
                 THEN walkStart(l0, "getAllCurrentUserPlaylists", Null)
                 ELSE walkStart(l0, fn, arg)
       IN  LibRun(l1, ls, inflight)
    /\ UNCHANGED <<ls, now, href, login, cb, srv, idb, hist>>
    /\ FetchResume(app)

\* the token endpoint answers the refresh request made inside apiFetch
LibRefreshResponse(resp) ==
    /\ lib.pc = "running"
    /\ call["lib"].pc = "refresh"
    /\ \E r \in inflight :
          /\ r.by = "lib" /\ r.to = "token"
          /\ LET o == refreshSettle(resp)
                 s1 == IF o.store THEN storeTokenResponse(ls, resp.json, now) ELSE ls
             IN  /\ ls' = s1
                 /\ hist' = IF o.store THEN storeWriters(hist, resp.json) ELSE hist
                 /\ IF ~o.threw /\ Truthy(o.ret)
                    THEN /\ lib' = [lib EXCEPT !.log = Append(@, stripOrigin(lib.url)),
                                               !.sent = @ + 1]
                         /\ call' = [call EXCEPT !["lib"] =
                                        [@ EXCEPT !.pc = "api", !.bearer = o.ret, !.got = resp]]
                         /\ inflight' = (inflight \ {r}) \cup pageRequests("lib", lib.url, o.ret)
                    ELSE LibRun(walkThrow(lib, IF o.threw THEN o.err ELSE NotAuthenticated),
                                s1, inflight \ {r})
    /\ UNCHANGED <<now, href, login, cb, srv, idb>>
    /\ FetchResume(app)

\* the resource API answers a page request of the call
LibApiResponse(resp) ==
    /\ lib.pc = "running"
    /\ call["lib"].pc = "api"
    /\ \E r \in inflight :
          /\ r.by = "lib" /\ r.to = "api"
          /\ resp.kind = "ok" => Serves(r.path)
          /\ IF apiError(resp) # Null
             THEN LibRun(walkThrow(lib, apiError(resp)), ls, inflight \ {r})
             ELSE LibRun(walkPage(lib, ServedPage(r.path.res, r.path.page)), ls, inflight \ {r})
    /\ UNCHANGED <<ls, now, href, login, cb, srv, idb, hist>>
    /\ FetchResume(app)


MePath == ApiUrl(Empty, "/me", 0)

\* bodies of GET /me
Profiles == {[id |-> "u1", display_name |-> "Ann", country |-> "SE"], [id |-> "u2"]}

\* getCurrentUserProfile() up to its first suspension: the call record and the
\* request it sends
profileStart(s, t) ==
    LET o == gvatStart(s, t)
    IN  CASE o.kind = "token" ->
               [rec |-> [CallIdle EXCEPT !.pc = "api", !.bearer = o.token],
                reqs |-> {ApiRequest("profile", MePath, o.token)}]
          [] o.kind = "null" ->
               [rec |-> [CallIdle EXCEPT !.pc = "thrown", !.err = NotAuthenticated],
                reqs |-> {}]
          [] o.kind = "post" ->
               [rec |-> [CallIdle EXCEPT !.pc = "refresh", !.posts = 1],
                reqs |-> {RefreshRequest("profile", o.refresh)}]

\* the Fetch button, there when the last render found a token and enabled while
\* no fetch runs: fetchFromSpotify() up to `await Promise.all(...)`.  (A fetch is
\* started here once the calls of a failed one have ended.)
Fetch ==
    /\ ~Away
    /\ app.authed
    /\ app.pc \in {"idle", "failed"}
    /\ lib.pc # "running" /\ ~Pending("profile")
    /\ LET p == profileStart(ls, now)
           l0 == [LibIdle EXCEPT !.pc = "running", !.fn = "getPlaylistsWithTracks"]
       IN  LibRunFrom(walkStart(l0, "getAllCurrentUserPlaylists", Null), ls,
                      inflight \cup p.reqs, [call EXCEPT !["profile"] = p.rec])
    /\ UNCHANGED <<ls, now, href, login, cb, srv, idb, hist>>
    /\ FetchResume([AppIdle EXCEPT !.pc = "fetching", !.authed = isAuthed(ls, now)])

\* the token endpoint answers the refresh request made inside the apiFetch of
\* getCurrentUserProfile
ProfileRefreshResponse(resp) ==
    /\ call["profile"].pc = "refresh"
    /\ \E r \in inflight :
          /\ r.by = "profile" /\ r.to = "token"
          /\ LET o == refreshSettle(resp)
             IN  /\ ls' = IF o.store THEN storeTokenResponse(ls, resp.json, now) ELSE ls
                 /\ hist' = IF o.store THEN storeWriters(hist, resp.json) ELSE hist
                 /\ IF ~o.threw /\ Truthy(o.ret)
                    THEN /\ call' = [call EXCEPT !["profile"] =
                                        [@ EXCEPT !.pc = "api", !.bearer = o.ret, !.got = resp]]
                         /\ inflight' = (inflight \ {r})
                                           \cup {ApiRequest("profile", MePath, o.ret)}
                    ELSE /\ call' = [call EXCEPT !["profile"] =
                                        [@ EXCEPT !.pc = "thrown", !.got = resp,
                                                  !.err = IF o.threw THEN o.err
                                                          ELSE NotAuthenticated]]
                         /\ inflight' = inflight \ {r}
    /\ UNCHANGED <<now, href, login, cb, lib, srv, idb>>
    /\ FetchResume(app)

\* the resource API answers GET /me, with body when the answer is 2xx JSON
ProfileApiResponse(resp, body) ==
    /\ call["profile"].pc = "api"
    /\ \E r \in inflight :
          /\ r.by = "profile" /\ r.to = "api"
          /\ inflight' = inflight \ {r}
    /\ call' = [call EXCEPT !["profile"] =
                   IF apiError(resp) # Null
                   THEN [@ EXCEPT !.pc = "thrown", !.err = apiError(resp)]
                   ELSE [@ EXCEPT !.pc = "returned"]]
    /\ UNCHANGED <<ls, now, href, login, cb, lib, srv, idb, hist>>
    /\ FetchResume(IF apiError(resp) = Null /\ app.pc = "fetching"
                   THEN [app EXCEPT !.user = body] ELSE app)

\* the Sign out button, there when the last render found a token and as long as
\* no fetched data is on display
SignOut ==
    /\ app.authed
    /\ app.pc \in {"idle", "fetching", "failed"}
    /\ ClearTokens

\* no resource is served: the session manager does not call the resource API
NoServer == [res \in {} |-> [sizes |-> <<>>, ending |-> "null"]]

(***************************************************************************)
(* The session manager on its own: login, callback, token retrieval        *)
(***************************************************************************)
InitAuth ==
    /\ ls = EmptyStore
    /\ now = NowStart
    /\ href = NoUrl
    /\ login = LoginNone
    /\ cb = CbIdle
    /\ call = [t \in Tasks |-> CallIdle]
    /\ inflight = {}
    /\ lib = LibIdle
    /\ srv = NoServer
    /\ NoCache

NextAuth ==
    \/ \E c \in ClientIds, a \in Attempts : BeginLogin(c, a.codeVerifier, a.state)
    \/ \E u \in Urls : PageLoad(u)
    \/ CbStart
    \/ \E resp \in TokenResponses : CbResponse(resp)
    \/ GvatStart
    \/ \E resp \in TokenResponses : GvatResponse(resp)
    \/ ClearTokens
    \/ Tick

SpecAuth == InitAuth /\ [][NextAuth]_vars


(***************************************************************************)
(* The paged walks on their own (SpecWalk) and the assembly (SpecAsm)      *)
(***************************************************************************)
\* Page chains: 1..MaxPages pages of 0..MaxItems items each, or with no items
\* field (-1), ending in a null or in a missing next.
Chains ==
    [sizes : UNION {[1..n -> -1..MaxItems] : n \in 1..MaxPages},
     ending : {"null", "absent"}]

\* Stores a session starts from: what a token answer at NowStart left, either a
\* short-lived access token with a refresh token, or a long-lived one without.
ApiStores ==
    {storeTokenResponse(EmptyStore, j, NowStart) :
        j \in {[access_token |-> "a1", expires_in |-> 40, refresh_token |-> "r1"],
               [access_token |-> "a1", expires_in |-> 3600, refresh_token |-> Null]}}

\* token answers to the refresh requests made inside apiFetch (the refresh token
\* is not rotated)
ApiTokenResponses ==
    [kind : {"ok"},
     json : [access_token : {"a2", Null}, expires_in : {40}, refresh_token : {Null}]]
        \cup [kind : {"status", "netfail", "badjson"}, json : {NoJson}]

WalkResources == {PlaylistsPath, SavedTracksPath, PlaylistTracksPath("p1")}

InitWalk ==
    /\ ls \in ApiStores
    /\ now = NowStart
    /\ href = NoUrl
    /\ login = LoginNone
    /\ cb = CbIdle
    /\ call = [t \in Tasks |-> CallIdle]
    /\ inflight = {}
    /\ lib = LibIdle
    /\ \E c \in Chains : srv = [res \in WalkResources |-> c]
    /\ NoCache

NextWalk ==
    \/ \E fn \in WalkFns :
          LibCall(fn, IF fn = "getAllPlaylistTracks" THEN "p1" ELSE Null)
    \/ \E resp \in ApiTokenResponses : LibRefreshResponse(resp)
    \/ \E resp \in ApiResponses : LibApiResponse(resp)
    \/ ClearTokens
    \/ Tick

SpecWalk == InitWalk /\ [][NextWalk]_vars

\* The library of an account: up to Len(PlaylistObjs) playlists on the pages of
\* /me/playlists, the saved tracks on 1..MaxPages pages of one item, and the
\* tracks of each playlist.
AsmPlaylistChains ==
    {c \in Chains :
        /\ c.ending = "null"
        /\ \A i \in 1..Len(c.sizes) : c.sizes[i] >= 0
        /\ SumSizes(c.sizes) <= Len(PlaylistObjs)}

AsmSavedChains == {[sizes |-> [i \in 1..n |-> 1], ending |-> "null"] : n \in 1..MaxPages}

AsmTrackChain(res) ==
    CASE res = PlaylistTracksPath("p1") -> [sizes |-> <<1, 1>>, ending |-> "null"]
      [] res = PlaylistTracksPath("p2") -> [sizes |-> <<2>>, ending |-> "absent"]
      [] OTHER -> [sizes |-> <<0>>, ending |-> "null"]

AsmResources ==
    {PlaylistsPath, SavedTracksPath}
        \cup {PlaylistTracksPath(PlaylistObjs[i].id) : i \in 1..Len(PlaylistObjs)}

AsmServers ==
    {[res \in AsmResources |->
        IF res = PlaylistsPath THEN pl
        ELSE IF res = SavedTracksPath THEN sv
        ELSE AsmTrackChain(res)] : pl \in AsmPlaylistChains, sv \in AsmSavedChains}

InitAsm ==
    /\ ls \in ApiStores
    /\ now = NowStart
    /\ href = NoUrl
    /\ login = LoginNone
    /\ cb = CbIdle
    /\ call = [t \in Tasks |-> CallIdle]
    /\ inflight = {}
    /\ lib = LibIdle
    /\ srv \in AsmServers
    /\ NoCache

NextAsm ==
    \/ LibCall("getPlaylistsWithTracks", Null)
    \/ \E resp \in ApiTokenResponses : LibRefreshResponse(resp)
    \/ \E resp \in ApiResponses : LibApiResponse(resp)
    \/ ClearTokens
    \/ Tick

SpecAsm == InitAsm /\ [][NextAsm]_vars

(***************************************************************************)
(* The cache on its own (SpecCache)                                        *)
(***************************************************************************)
\* the output of sanitizePlaylistsForStorage for a library of two playlists
CachedPlaylists ==
    << [id |-> "liked-songs-virtual", name |-> "liked songs *", owner |-> Null,
        tracks |-> <<sanitizeTrack(TrackItems[1])>>],
       [id |-> "p1", name |-> "Mix", owner |-> "Ann", tracks |-> <<>>] >>

\* What App saves: a collection with `user || null` of the profile GET /me
\* returned: null, a profile with more fields than the cache keeps, and one
\* without display_name
Saves ==
    {[playlists |-> <<>>, user |-> NullObject],
     [playlists |-> CachedPlaylists,
      user |-> [id |-> "u1", display_name |-> "Ann", country |-> "SE"]],
     [playlists |-> SubSeq(CachedPlaylists, 1, 1), user |-> [id |-> "u2"]]}

InitCache ==
    /\ ls = EmptyStore
    /\ now = NowStart
    /\ href = NoUrl
    /\ login = LoginNone
    /\ cb = CbIdle
    /\ call = [t \in Tasks |-> CallIdle]
    /\ inflight = {}
    /\ lib = LibIdle
    /\ srv = NoServer
    /\ NoCache

NextCache ==
    \/ \E a \in Saves : SaveStart(a.playlists, a.user)
    \/ \E outcome \in IdbOutcomes, fb \in LsOutcomes \cup {"none"} : SaveSettle(outcome, fb)
    \/ LoadStart
    \/ \E outcome \in IdbOutcomes, fb \in LsOutcomes \cup {"none"} : LoadSettle(outcome, fb)
    \/ PurgeStart
    \/ \E outcome \in IdbOutcomes, fb \in LsOutcomes \cup {"none"} : PurgeSettle(outcome, fb)
    \/ Evict
    \/ Tick

SpecCache == InitCache /\ [][NextCache]_vars

(***************************************************************************)
(* Claims about the session manager (SpecAuth)                             *)
(***************************************************************************)
storedToken == getItem(ls, LS_KEYS.token)
storedRefresh == getItem(ls, LS_KEYS.refreshToken)

\* a token-endpoint answer resp is delivered to one of the calls waiting for it
TokenResponseStep(resp) == CbResponse(resp) \/ GvatResponse(resp)

\* C1: a callback whose URL carries a code and whose state parameter is absent
\* or differs from the stored state throws "State mismatch", sends no token
\* request and leaves localStorage as it was.
C1_StateMismatchBlocksExchange ==
    [][(/\ CbStart
        /\ Truthy(href.code)
        /\ (href.state = Null \/ href.state # getItem(ls, LS_KEYS.state)))
       => (/\ cb'.pc = "thrown" /\ cb'.err = "State mismatch"
           /\ cb'.posts = 0
           /\ inflight' = inflight
           /\ ls' = ls)]_vars

\* the callback threw State mismatch on a URL with a code, with a token and a
\* different state stored
C1_Witness ==
    /\ cb.pc = "thrown" /\ cb.err = "State mismatch"
    /\ Truthy(href.code) /\ Truthy(href.state)
    /\ Truthy(getItem(ls, LS_KEYS.state))
    /\ Truthy(storedToken)

\* C2: with a verifier and state stored by beginLogin, a callback whose URL
\* carries a code and the stored state sends exactly one token POST, with
\* grant_type=authorization_code, that code and the stored code_verifier; on the
\* successful answer (access_token and expires_in present) it stores that access
\* token with expiry = now + expires_in*1000 and returns true without a further
\* POST.
C2_CallbackExchangesOnce ==
    [][/\ (/\ CbStart
           /\ Truthy(href.code)
           /\ href.state # Null
           /\ href.state = getItem(ls, LS_KEYS.state)
           /\ Truthy(getItem(ls, LS_KEYS.codeVerifier)))
          => (/\ cb'.pc = "exchange" /\ cb'.posts = 1
              /\ RequestsOf("cb", "token") = {}
              /\ inflight' = inflight \cup
                    {TokenRequest("cb", "authorization_code", href.code,
                                  getItem(ls, LS_KEYS.codeVerifier), Null)})
       /\ (/\ cb.pc = "exchange" /\ cb'.pc \in {"returned", "thrown"}
           /\ cb'.got.kind = "ok"
           /\ Truthy(cb'.got.json.access_token)
           /\ cb'.got.json.expires_in # 0)
          => (/\ cb'.pc = "returned" /\ cb'.ret = "true" /\ cb'.posts = 1
              /\ inflight' = inflight \ RequestsOf("cb", "token")
              /\ getItem(ls', LS_KEYS.token) = cb'.got.json.access_token
              /\ storedExpiry(ls') = now + cb'.got.json.expires_in * 1000)]_vars

\* the callback returned true after one POST and the token of the answer is stored
C2_Witness ==
    /\ cb.pc = "returned" /\ cb.ret = "true" /\ cb.posts = 1
    /\ cb.got.kind = "ok"
    /\ Truthy(cb.got.json.access_token)
    /\ storedToken = cb.got.json.access_token
    /\ storedExpiry(ls) = now + cb.got.json.expires_in * 1000

\* the stored access token is usable at time `now`
Fresh == Truthy(storedToken) /\ storedExpiry(ls) # 0 /\ now < storedExpiry(ls) - 30000

C4_RefreshOnceAndReturnNew ==
    [][/\ (GvatStart /\ ~Fresh /\ Truthy(storedRefresh))
          => (/\ call'["silent"].pc = "refresh" /\ call'["silent"].posts = 1
              /\ RequestsOf("silent", "token") = {}
              /\ inflight' = inflight \cup {RefreshRequest("silent", storedRefresh)})
       /\ (/\ call["silent"].pc = "refresh" /\ call'["silent"].pc # "refresh"
           /\ call'["silent"].got.kind = "ok"
           /\ Truthy(call'["silent"].got.json.access_token))
          => (/\ call'["silent"].pc = "returned"
              /\ call'["silent"].ret = call'["silent"].got.json.access_token
              /\ getItem(ls', LS_KEYS.token) = call'["silent"].ret
              /\ call'["silent"].posts = 1
              /\ inflight' = inflight \ RequestsOf("silent", "token"))]_vars

\* a refresh replaced the stored access token and returned the new one
C4_Witness ==
    /\ call["silent"].pc = "returned" /\ call["silent"].posts = 1
    /\ call["silent"].got.kind = "ok"
    /\ Truthy(call["silent"].ret)
    /\ call["silent"].ret = storedToken
    /\ Fresh

\* C5: getValidAccessToken never throws on the refresh path: whatever way the
\* refresh fails (non-success status, network failure, unreadable body), the call
\* resolves to null.
C5_RefreshNeverThrows ==
    (call["silent"].pc \in {"returned", "thrown"} /\ call["silent"].posts > 0
        /\ call["silent"].got.kind # "ok")
    => (call["silent"].pc = "returned" /\ call["silent"].ret = Null)

\* C6: a stored refresh token stays stored through every token exchange: a step
\* changes it only if it is clearTokens or the delivery of a successful token
\* answer that supplies the new value.
C6_RefreshTokenPersists ==
    [][Truthy(storedRefresh)
       => \/ getItem(ls', LS_KEYS.refreshToken) = storedRefresh
          \/ ClearTokens
          \/ \E resp \in TokenResponses :
                /\ resp.kind = "ok"
                /\ Truthy(resp.json.refresh_token)
                /\ resp.json.refresh_token = getItem(ls', LS_KEYS.refreshToken)
                /\ TokenResponseStep(resp)]_vars

\* a refresh answer without refresh_token replaced the access token and the
\* refresh token is still stored
C6_Witness ==
    /\ call["silent"].pc = "returned" /\ call["silent"].posts = 1
    /\ call["silent"].got.kind = "ok"
    /\ call["silent"].got.json.refresh_token = Null
    /\ Truthy(call["silent"].ret) /\ call["silent"].ret = storedToken
    /\ Truthy(storedRefresh)

\* C7: on a URL without a code, handleRedirectCallback returns false, sends no
\* request, changes no stored entry and leaves the URL as it is, on every call.
C7_NoCodeIsNoOp ==
    [][(CbStart /\ ~Truthy(href.code))
       => (/\ cb'.pc = "returned" /\ cb'.ret = "false" /\ cb'.posts = 0
           /\ inflight' = inflight
           /\ ls' = ls
           /\ href' = href)]_vars

\* the callback returned false on a URL with no code while login material and a
\* state parameter were there
C7_Witness ==
    /\ cb.pc = "returned" /\ cb.ret = "false"
    /\ ~Truthy(href.code) /\ Truthy(href.state)
    /\ href.state = getItem(ls, LS_KEYS.state)
    /\ Truthy(storedToken)

(***************************************************************************)
(* Claims about the paged walks (SpecWalk) and the assembly (SpecAsm)      *)
(***************************************************************************)
\* the items the server holds for a resource, in server order
AllItems(res) == [n \in 1..SumSizes(srv[res].sizes) |-> ItemAt(res, n)]

\* the same items as a track walk returns them
AllTracks(res) == [n \in 1..Len(AllItems(res)) |-> sanitizeTrack(AllItems(res)[n])]

WalkedResource == firstUrl(lib.fn, lib.arg).res

\* C8: on a chain of N pages a walk sends exactly N requests, one per page in
\* chain order, then returns; what it returns is the items of the pages in page
\* order and item order (track items in their sanitized form).
C8_WalkReturnsAllPagesInOrder ==
    (lib.fn \in WalkFns /\ lib.pc # "idle")
    => LET N == Len(srv[WalkedResource].sizes)
       IN  /\ lib.sent <= N
           /\ lib.pc = "running" => lib.pages < N
           /\ lib.pc = "returned"
              => /\ lib.sent = N /\ lib.pages = N
                 /\ lib.log = [i \in 1..N |-> ApiUrl(Empty, WalkedResource, i)]
                 /\ RequestsOf("lib", "api") = {}
                 /\ lib.ret = IF lib.fn = "getAllCurrentUserPlaylists"
                              THEN AllItems(WalkedResource)
                              ELSE AllTracks(WalkedResource)

\* a track walk returned the three items of a two-page chain [a, b], [c]
C8_Witness ==
    /\ lib.fn = "getAllPlaylistTracks" /\ lib.pc = "returned"
    /\ srv[WalkedResource].sizes = <<2, 1>>
    /\ Len(lib.ret) = 3 /\ lib.ret[1] # lib.ret[2]
    /\ lib.sent = 2

\* C9: a walk has at most one page request in flight, and a request in flight is
\* for the page that follows the pages already consumed.
C9_PagesFetchedOneAtATime ==
    LET rs == RequestsOf("lib", "api")
    IN  /\ Cardinality(rs) <= 1
        /\ lib.sent \in {lib.pages, lib.pages + 1}
        /\ \A r \in rs :
              /\ lib.pc = "running"
              /\ lib.sent = lib.pages + 1
              /\ r.path.page = lib.pages + 1

\* the request for page 2 is in flight after page 1 was consumed
C9_Witness ==
    /\ lib.fn = "getAllPlaylistTracks" /\ lib.pages = 1
    /\ \E r \in RequestsOf("lib", "api") : r.path.page = 2

LikedId == "liked-songs-virtual"

NamedEntries(entries) == SelectSeq(entries, LAMBDA e : e.id # LikedId)

\* C10: getPlaylistsWithTracks never fails because of the saved-tracks walk; when
\* it returns, the liked-songs entry is in the result exactly when that walk
\* succeeded (then it is first and holds the saved tracks), and the result holds
\* every named playlist, in order, with its tracks.
C10_LikedSongsBestEffort ==
    lib.fn = "getPlaylistsWithTracks"
    => /\ lib.pc = "thrown" => lib.walk # "getAllSavedTracks"
       /\ lib.pc = "returned"
          => LET named == NamedEntries(lib.ret)
                 pls == AllItems(PlaylistsPath)
             IN  /\ (\E i \in 1..Len(lib.ret) : lib.ret[i].id = LikedId)
                       <=> lib.liked = "ok"
                 /\ lib.liked = "ok"
                       => /\ lib.ret[1].id = LikedId
                          /\ lib.ret[1].tracks = AllTracks(SavedTracksPath)
                          /\ Len(lib.ret) = Len(named) + 1
                 /\ Len(named) = Len(pls)
                 /\ \A i \in 1..Len(pls) :
                       /\ named[i].id = pls[i].id
                       /\ named[i].tracks = AllTracks(PlaylistTracksPath(pls[i].id))

\* the saved-tracks walk failed and the call returned two named playlists
C10_Witness ==
    /\ lib.fn = "getPlaylistsWithTracks" /\ lib.pc = "returned"
    /\ lib.liked = "failed"
    /\ Len(lib.ret) = 2
    /\ \E i \in 1..Len(lib.log) : lib.log[i].res = SavedTracksPath

\* the paths of the requests the call has sent for the tracks of playlist p
TrackRequests(p) ==
    {i \in 1..Len(lib.log) : lib.log[i].res = PlaylistTracksPath(p.id)}

\* the call failed while fetching the tracks of its k-th named playlist
FailedAtPlaylist ==
    /\ lib.fn = "getPlaylistsWithTracks" /\ lib.pc = "thrown"
    /\ lib.walk = "getAllPlaylistTracks"

\* C11: when fetching the tracks of the k-th named playlist fails, the call of
\* getPlaylistsWithTracks fails at once with the error of that fetch; no track
\* request has been or is sent for a later playlist, and nothing is returned
\* (the entries built so far are dropped).
C11_NamedPlaylistFailureAborts ==
    /\ [](FailedAtPlaylist
            => /\ lib.k \in 1..Len(lib.playlists)
               /\ Truthy(lib.err)
               /\ lib.ret = <<>>
               /\ \A j \in (lib.k + 1)..Len(lib.playlists) :
                     TrackRequests(lib.playlists[j]) = {}
               /\ RequestsOf("lib", "api") = {})
    /\ [][\A resp \in ApiResponses :
            (/\ LibApiResponse(resp)
             /\ apiError(resp) # Null
             /\ lib.fn = "getPlaylistsWithTracks"
             /\ lib.walk = "getAllPlaylistTracks")
            => (/\ lib'.pc = "thrown" /\ lib'.err = apiError(resp)
                /\ lib'.k = lib.k
                /\ lib'.log = lib.log
                /\ lib'.ret = <<>>)]_vars

\* the tracks of the first of two playlists failed with a server error after the
\* liked songs were fetched: one entry was built and none is returned
C11_Witness ==
    /\ FailedAtPlaylist
    /\ lib.k = 1 /\ Len(lib.playlists) >= 2
    /\ lib.liked = "ok" /\ Len(lib.result) = 1
    /\ lib.err = "Spotify API error 500: boom"
    /\ TrackRequests(lib.playlists[1]) # {}

(***************************************************************************)
(* Claims about the cache (SpecCache)                                      *)
(***************************************************************************)
\* the {id, display_name} projection of a profile
Projection(u) ==
    IF u = NullObject THEN NullObject
    ELSE [id |-> IF "id" \in DOMAIN u /\ u.id # "" THEN u.id ELSE Null,
          display_name |-> IF "display_name" \in DOMAIN u /\ u.display_name # ""
                           THEN u.display_name ELSE Null]

\* what a load is to return for the save g (its arguments and returned createdAt)
CopyOf(g) ==
    [playlists |-> g.playlists, user |-> Projection(g.user), createdAt |-> g.createdAt]

\* a step in which the pending call of t ends
CacheEnds(t) == cache[t].pc = "pending" /\ cache'[t].pc \in {"returned", "thrown"}

\* C12: a load whose read of the primary store succeeds after a save wrote it
\* (and no purge since) returns the playlists that save was given, the
\* {id, display_name} projection of its user, and the createdAt it returned.
C12_SaveLoadRoundTrip ==
    [][(/\ CacheEnds("load")
        /\ cache'["load"].primary = "ok"
        /\ hist.lastSave # NoSave)
       => (/\ cache'["load"].pc = "returned"
           /\ cache'["load"].ret = CopyOf(hist.lastSave))]_vars

\* both tiers hold the save of two playlists made a tick ago, and the load
\* returned them with the projected user and the createdAt the save returned
C12_Witness ==
    /\ cache["load"].pc = "returned" /\ cache["load"].primary = "ok"
    /\ cache["save"].pc = "returned" /\ cache["save"].fallback = "ok"
    /\ hist.lastSave # NoSave /\ hist.mirror = hist.lastSave
    /\ cache["load"].ret # NullObject
    /\ cache["load"].ret.playlists = CachedPlaylists
    /\ cache["load"].ret.user = [id |-> "u1", display_name |-> "Ann"]
    /\ cache["load"].ret.createdAt = cache["save"].ret.createdAt
    /\ cache["load"].ret.createdAt < now

\* C13: loadPlaylistsCache never throws: when opening or reading the primary
\* store fails it returns the copy in the fallback store, and null when the
\* fallback store holds none.
C13_LoadNeverThrows ==
    [][(/\ CacheEnds("load")
        /\ cache'["load"].primary \in {"openfail", "reqfail"})
       => (/\ cache'["load"].pc = "returned"
           /\ hist.mirror = NoSave => cache'["load"].ret = NullObject
           /\ cache'["load"].ret # NullObject
                 => cache'["load"].ret = CopyOf(hist.mirror))]_vars

\* C14: a load that reads the primary store and finds no record returns the
\* playlists, user and createdAt of the mirror in the fallback store when it
\* reads one, and null when the fallback store is empty.
C14_EmptyPrimaryFallsBack ==
    [][(/\ CacheEnds("load")
        /\ cache'["load"].primary = "ok"
        /\ PLAYLISTS_KEY \notin DOMAIN idb)
       => (/\ cache'["load"].pc = "returned"
           /\ (hist.mirror # NoSave /\ cache'["load"].fallback = "ok")
                 => cache'["load"].ret = CopyOf(hist.mirror)
           /\ hist.mirror = NoSave => cache'["load"].ret = NullObject)]_vars

\* the primary store is empty, the fallback holds a mirror, and the load returned
\* the mirror's collection
C14_Witness ==
    /\ cache["load"].pc = "returned" /\ cache["load"].primary = "ok"
    /\ cache["load"].fallback = "ok"
    /\ idb = EmptyDb /\ BACKUP_KEY \in DOMAIN ls
    /\ hist.mirror # NoSave
    /\ cache["load"].ret = CopyOf(hist.mirror)
    /\ Len(cache["load"].ret.playlists) = 2

\* C15: a load that begins after purgeCache completed, with no save writing
\* since, returns null.
C15_PurgeThenLoadNull ==
    [][(/\ CacheEnds("load")
        /\ cache["load"].afterPurge
        /\ hist.sincePurge)
       => (/\ cache'["load"].pc = "returned"
           /\ cache'["load"].ret = NullObject)]_vars

\* C16: savePlaylistsCache returns {createdAt} exactly when the write to the
\* primary store succeeds, whether or not the backup could be written; when the
\* primary write fails it throws and stores nothing.
C16_SaveSucceedsIffPrimary ==
    [][CacheEnds("save")
       => (/\ (cache'["save"].pc = "returned") <=> (cache'["save"].primary = "ok")
           /\ cache'["save"].primary = "ok"
                 => /\ cache'["save"].ret = [createdAt |-> cache["save"].record.createdAt]
                    /\ getRecord(idb', PLAYLISTS_KEY) = cache["save"].record
           /\ cache'["save"].primary # "ok"
                 => /\ cache'["save"].pc = "thrown" /\ Truthy(cache'["save"].err)
                    /\ idb' = idb /\ ls' = ls)]_vars

\* the save returned its createdAt although the backup could not be written
C16_Witness ==
    /\ cache["save"].pc = "returned" /\ cache["save"].primary = "ok"
    /\ cache["save"].fallback = "fail"
    /\ cache["save"].ret.createdAt >= NowStart
    /\ BACKUP_KEY \notin DOMAIN ls
    /\ PLAYLISTS_KEY \in DOMAIN idb

\* C17: purgeCache tries to clear each tier whatever happens to the other: when
\* it has ended, both the clearing of the primary store and the removal of the
\* backup were attempted.
C17_PurgeClearsTiersIndependently ==
    cache["purge"].pc \in {"returned", "thrown"}
    => (cache["purge"].primary # "none" /\ cache["purge"].fallback # "none")

(***************************************************************************)
(* Further claims about the session manager and apiFetch                   *)
(***************************************************************************)
FivePersistedEntries ==
    {"spotify_pkce_code_verifier", "spotify_oauth_state", "spotify_access_token",
     "spotify_access_token_expiry", "spotify_refresh_token"}

\* C18: clearTokens leaves none of the five persisted entries in localStorage,
\* from any state, and clearTokens applied again changes nothing.
C18_ClearTokensRemovesAll ==
    [][ClearTokens
       => (/\ DOMAIN ls' \cap FivePersistedEntries = {}
           /\ \A k \in DOMAIN ls : k \notin FivePersistedEntries => k \in DOMAIN ls'
           /\ clearTokensStore(ls') = ls')]_vars

\* a login was completed with all five entries stored, and the store is empty
C18_Witness ==
    /\ cb.pc = "returned" /\ cb.ret = "true"
    /\ Truthy(cb.got.json.access_token) /\ cb.got.json.expires_in # 0
    /\ Truthy(cb.got.json.refresh_token)
    /\ ls = EmptyStore

\* getValidAccessToken yields no token in this step of the call: there is no
\* usable token and no refresh token, or the refresh request is answered with a
\* non-2xx status or without an access token
YieldsNoToken ==
    \/ /\ lib.pc # "running"
       /\ ~Fresh /\ ~Truthy(storedRefresh)
       /\ \E fn \in WalkFns, arg \in {Null, "p1"} : LibCall(fn, arg)
    \/ /\ call["lib"].pc = "refresh"
       /\ \E resp \in ApiTokenResponses :
             /\ resp.kind = "status" \/ (resp.kind = "ok" /\ ~Truthy(resp.json.access_token))
             /\ LibRefreshResponse(resp)
    \/ /\ call["lib"].pc = "api"
       /\ ~Fresh /\ ~Truthy(storedRefresh)
       /\ lib'.pages = lib.pages + 1
       /\ lib'.url.page # 0
       /\ \E resp \in ApiResponses : resp.kind = "ok" /\ LibApiResponse(resp)

\* C19: when getValidAccessToken yields no token, the walk's apiFetch throws
\* 'Not authenticated with Spotify' and no request goes to the resource API.
C19_NoTokenNoRequest ==
    [][YieldsNoToken
       => (/\ lib'.pc = "thrown" /\ lib'.err = "Not authenticated with Spotify"
           /\ lib'.sent = IF lib.pc = "running" THEN lib.sent ELSE 0
           /\ {r \in inflight' : r.by = "lib" /\ r.to = "api"} = {})]_vars

\* after one page the token was gone, and the walk failed without a second request
C19_Witness ==
    /\ lib.pc = "thrown" /\ lib.err = "Not authenticated with Spotify"
    /\ lib.pages = 1 /\ lib.sent = 1
    /\ Len(lib.log) = 1
    /\ RequestsOf("lib", "api") = {}

\* C20: for every non-2xx answer of the resource API, 401 included, apiFetch
\* throws an error that carries the status and the body, and sends no request
\* again.
C20_ApiErrorCarriesStatusAndBody ==
    [][\A resp \in ApiResponses :
          (LibApiResponse(resp) /\ resp.kind = "status")
          => (/\ lib'.pc = "thrown"
              /\ lib'.err = "Spotify API error " \o ToString(resp.status) \o ": " \o resp.text
              /\ lib'.sent = lib.sent
              /\ {r \in inflight' : r.by = "lib" /\ r.to = "api"} = {})]_vars

(***************************************************************************)
(* Failure and no-op paths of the session manager (SpecAuth)               *)
(***************************************************************************)
\* the token endpoint answers the exchange of the pending callback with resp
ExchangeAnswered(resp) == cb.pc = "exchange" /\ CbResponse(resp)

\* C21: when the token endpoint answers the authorization-code exchange with a
\* non-success status, handleRedirectCallback throws "Token exchange failed"
\* and leaves localStorage and the URL as they were: it stores no token, and
\* the tokens, the verifier and the state stored at that moment stay stored.
C21_FailedExchangeKeepsStore ==
    [][\A resp \in TokenResponses :
          (ExchangeAnswered(resp) /\ resp.kind = "status")
          => (/\ cb'.pc = "thrown" /\ cb'.err = "Token exchange failed"
              /\ ls' = ls
              /\ href' = href)]_vars

\* the exchange was refused while the tokens of an earlier login were stored:
\* they, the verifier and the state are still there
C21_Witness ==
    /\ cb.pc = "thrown" /\ cb.err = "Token exchange failed" /\ cb.posts = 1
    /\ Truthy(storedToken) /\ Truthy(storedRefresh)
    /\ Truthy(getItem(ls, LS_KEYS.codeVerifier))
    /\ getItem(ls, LS_KEYS.state) = href.state
    /\ Truthy(href.code)

\* C22: with no usable access token (none stored, or expired) and no refresh
\* token stored, getValidAccessToken returns null and sends no request.
C22_NoRefreshTokenNoRequest ==
    [][(GvatStart /\ ~Fresh /\ ~Truthy(storedRefresh))
       => (/\ call'["silent"].pc = "returned"
           /\ call'["silent"].ret = Null
           /\ call'["silent"].posts = 0
           /\ inflight' = inflight
           /\ ls' = ls)]_vars

\* an expired access token is stored without a refresh token, and the call
\* returned null
C22_Witness ==
    /\ call["silent"].pc = "returned" /\ call["silent"].ret = Null
    /\ call["silent"].posts = 0
    /\ Truthy(storedToken) /\ ~Fresh
    /\ ~Truthy(storedRefresh)
    /\ RequestsOf("silent", "token") = {}

(***************************************************************************)
(* Token expiry in the middle of a walk (SpecWalk)                         *)
(***************************************************************************)
\* a page is answered; the walk has a next page to ask for
PageAnsweredWithNext ==
    /\ call["lib"].pc = "api"
    /\ lib'.pages = lib.pages + 1
    /\ lib'.url.page # 0
    /\ \E resp \in ApiResponses : resp.kind = "ok" /\ LibApiResponse(resp)

\* the page requests of the walk in flight after the step
PageRequestsNext == {r \in inflight' : r.by = "lib" /\ r.to = "api"}
RefreshRequestsNext == {r \in inflight' : r.by = "lib" /\ r.to = "token"}

SessionTokenResponses ==
    {[kind |-> "ok",
      json |-> [access_token |-> "a1", expires_in |-> 40, refresh_token |-> "r1"]],
     [kind |-> "status", json |-> NoJson]}

\* the session manager with the history of its exchanges recorded
InitSession ==
    /\ ls = EmptyStore
    /\ now = NowStart
    /\ href = NoUrl
    /\ login = LoginNone
    /\ cb = CbIdle
    /\ call = [t \in Tasks |-> CallIdle]
    /\ inflight = {}
    /\ lib = LibIdle
    /\ srv = NoServer
    /\ idb = EmptyDb
    /\ cache = [t \in CacheTasks |-> CacheIdle]
    /\ hist = [NoHist EXCEPT !.audit = TRUE]
    /\ app = AppIdle

NextSession ==
    \/ \E c \in ClientIds, a \in Attempts : BeginLogin(c, a.codeVerifier, a.state)
    \/ \E u \in Urls : PageLoad(u)
    \/ CbStart
    \/ \E resp \in SessionTokenResponses : CbResponse(resp)
    \/ ClearTokens
    \/ Tick

SpecSession == InitSession /\ [][NextSession]_vars

\* the material handleRedirectCallback would exchange the code with
StoredMaterial ==
    [codeVerifier |-> getItem(ls, LS_KEYS.codeVerifier),
     state |-> getItem(ls, LS_KEYS.state)]

\* C24: the PKCE material of a login attempt is consumed once: no call of
\* handleRedirectCallback sends a token exchange with a verifier and state that
\* an earlier call has successfully exchanged a code with.
C24_MaterialConsumedOnce ==
    [][(CbStart /\ cb'.pc = "exchange") => StoredMaterial \notin hist.consumed]_vars

(***************************************************************************)
(* Which save a load returns (SpecCacheAudit)                              *)
(***************************************************************************)
\* the cache with the last resolved save recorded
InitCacheAudit ==
    /\ ls = EmptyStore
    /\ now = NowStart
    /\ href = NoUrl
    /\ login = LoginNone
    /\ cb = CbIdle
    /\ call = [t \in Tasks |-> CallIdle]
    /\ inflight = {}
    /\ lib = LibIdle
    /\ srv = NoServer
    /\ idb = EmptyDb
    /\ cache = [t \in CacheTasks |-> CacheIdle]
    /\ hist = [NoHist EXCEPT !.audit = TRUE]
    /\ app = AppIdle

SpecCacheAudit == InitCacheAudit /\ [][NextCache]_vars

\* A load ends returning a record while a save has resolved and no save or
\* purge has resolved since.  (A load reads the tiers in the step its request
\* ends, so it reads what a load started after that save reads.)
LoadReturnsAfterSave ==
    /\ CacheEnds("load")
    /\ hist.latest # NoSave
    /\ cache'["load"].pc = "returned"
    /\ cache'["load"].ret # NullObject

\* C25 as claimed: after savePlaylistsCache(X) resolved, a later load with no
\* save or purge in between that returns a record returns X's snapshot,
\* whichever tier serves the read.
C25_EverySaveSupersedes ==
    [][LoadReturnsAfterSave => cache'["load"].ret = CopyOf(hist.latest)]_vars

\* C25, amended: such a load returns X's snapshot when the primary store serves
\* the read, and when the fallback serves it and the save of X wrote its mirror.
C25_SaveSupersedesWhereWritten ==
    [][(/\ LoadReturnsAfterSave
        /\ \/ cache'["load"].fallback = "none"
           \/ hist.mirror = hist.latest)
       => cache'["load"].ret = CopyOf(hist.latest)]_vars

\* a save made after the clock moved resolved with its mirror written, the
\* primary store was lost, and the load returned that save from the backup
C25_Witness ==
    /\ cache["load"].pc = "returned" /\ cache["load"].fallback = "ok"
    /\ hist.latest # NoSave /\ hist.mirror = hist.latest
    /\ hist.lastSave = NoSave
    /\ cache["load"].ret = CopyOf(hist.latest)
    /\ hist.latest.createdAt > NowStart

(***************************************************************************)
(* The strings beginLogin generates (SpecPkce)                             *)
(***************************************************************************)
\* byte arrays of length n: constant ones (a byte below 16, bytes whose base64
\* uses '+' and '/') and a mixed one
ByteArrays(n) ==
    {[i \in 1..n |-> b] : b \in {0, 9, 16, 251, 255}}
        \cup {[i \in 1..n |-> (i * 37) % 256]}

InitPkce ==
    /\ ls = EmptyStore
    /\ now = NowStart
    /\ href = NoUrl
    /\ login = LoginNone
    /\ cb = CbIdle
    /\ call = [t \in Tasks |-> CallIdle]
    /\ inflight = {}
    /\ lib = LibIdle
    /\ srv = NoServer
    /\ NoCache

NextPkce ==
    \/ \E c \in ClientIds, verifierBytes \in ByteArrays(VerifierBytes),
          digest \in ByteArrays(DigestBytes), stateBytes \in ByteArrays(StateBytes) :
          BeginLoginBytes(c, verifierBytes, digest, stateBytes)
    \/ PageLoad(NoUrl)

SpecPkce == InitPkce /\ [][NextPkce]_vars

Base64UrlAlphabet == "ABCDEFGHIJKLMNOPQRSTUVWXYZabcdefghijklmnopqrstuvwxyz0123456789-_"

\* bit k (from 1, most significant first) of the bytes; 0 past their end
BitOf(bytes, k) ==
    IF k > 8 * Len(bytes) THEN 0
    ELSE (bytes[((k - 1) \div 8) + 1] \div (2 ^ (7 - ((k - 1) % 8)))) % 2

\* the j-th group of six bits as a number
SextetOf(bytes, j) ==
    LET b(t) == BitOf(bytes, 6 * (j - 1) + t)
    IN  32 * b(1) + 16 * b(2) + 8 * b(3) + 4 * b(4) + 2 * b(5) + b(6)

\* base64url without padding (RFC 4648 section 5, RFC 7636 appendix A), from the
\* bits of the bytes
RECURSIVE Base64UrlFrom(_, _)
Base64UrlFrom(bytes, j) ==
    IF 6 * (j - 1) >= 8 * Len(bytes) THEN ""
    ELSE CharAt(Base64UrlAlphabet, SextetOf(bytes, j) + 1) \o Base64UrlFrom(bytes, j + 1)

HasChar(str, c) == \E i \in 1..Len(str) : CharAt(str, i) = c

\* C26: every beginLogin stores a code verifier of at least 43 characters, and
\* the code_challenge of its authorization URL is the unpadded base64url of the
\* SHA-256 digest of that verifier: no '+', no '/', no '=' at the end.
C26_VerifierAndChallengeWellFormed ==
    login.pc = "assigned"
    => (/\ Len(getItem(ls, LS_KEYS.codeVerifier)) >= 43
        /\ login.code_challenge = Base64UrlFrom(login.digest, 1)
        /\ ~HasChar(login.code_challenge, "+")
        /\ ~HasChar(login.code_challenge, "/")
        /\ CharAt(login.code_challenge, Len(login.code_challenge)) # "=")

\* a login was started whose 43-character challenge has both replaced characters,
\* with a 128-character verifier
C26_Witness ==
    /\ login.pc = "assigned"
    /\ Len(login.code_challenge) = 43
    /\ HasChar(login.code_challenge, "-") /\ HasChar(login.code_challenge, "_")
    /\ Len(getItem(ls, LS_KEYS.codeVerifier)) = 2 * VerifierBytes
    /\ Len(getItem(ls, LS_KEYS.state)) = 2 * StateBytes

(***************************************************************************)
(* fetchFromSpotify with sign-out (SpecApp)                                *)
(***************************************************************************)
\* a library of one playlist with two pages of tracks, and one saved track
AppServer ==
    [res \in {PlaylistsPath, SavedTracksPath, PlaylistTracksPath("p1")} |->
        IF res = PlaylistTracksPath("p1") THEN [sizes |-> <<1, 1>>, ending |-> "null"]
        ELSE [sizes |-> <<1>>, ending |-> "null"]]

\* the save an earlier session left in both tiers
OldSave ==
    [playlists |-> SubSeq(CachedPlaylists, 1, 1), user |-> [id |-> "u2"],
     createdAt |-> NowStart - TickMs]

OldRecord == cacheRecord(OldSave.playlists, OldSave.user, OldSave.createdAt)

\* The page is up after its start-up effect, rendered with the token of an
\* earlier session or of the callback just handled, and shows no data: the cache
\* is empty, or it holds an earlier save that the start-up did not load.
InitApp ==
    /\ now = NowStart
    /\ href = NoUrl
    /\ login = LoginNone
    /\ cb = CbIdle
    /\ call = [t \in Tasks |-> CallIdle]
    /\ inflight = {}
    /\ lib = LibIdle
    /\ srv = AppServer
    /\ \E s \in ApiStores :
          \/ /\ ls = s
             /\ idb = EmptyDb
             /\ hist = [NoHist EXCEPT !.audit = TRUE]
          \/ /\ ls = setItem(s, BACKUP_KEY, JSON_stringify(backupOf(OldRecord)))
             /\ idb = putRecord(EmptyDb, OldRecord)
             /\ hist = [NoHist EXCEPT !.audit = TRUE, !.lastSave = OldSave,
                                      !.mirror = OldSave, !.latest = OldSave]
    /\ cache = [t \in CacheTasks |-> CacheIdle]
    /\ app = [AppIdle EXCEPT !.authed = isAuthed(ls, now)]

NextApp ==
    \/ Fetch
    \/ \E resp \in ApiTokenResponses : ProfileRefreshResponse(resp)
    \/ \E resp \in ApiResponses, body \in Profiles : ProfileApiResponse(resp, body)
    \/ \E resp \in ApiTokenResponses : LibRefreshResponse(resp)
    \/ \E resp \in ApiResponses : LibApiResponse(resp)
    \/ \E outcome \in IdbOutcomes, fb \in LsOutcomes \cup {"none"} : SaveSettle(outcome, fb)
    \/ SignOut
    \/ Tick

SpecApp == InitApp /\ [][NextApp]_vars

\* the refresh requests on the wire
RefreshesInFlight == {r \in inflight : r.to = "token" /\ r.grant_type = "refresh_token"}

\* C23: no two operations that write the same persisted key are in flight
\* together; in particular at most one token refresh (which writes the access
\* token and its expiry) is in flight at any moment, across the profile fetch and
\* the playlist assembly that fetchFromSpotify starts together.
C23_AtMostOneRefreshInFlight == Cardinality(RefreshesInFlight) <= 1

PlaylistFields == {"id", "name", "owner", "tracks"}
TrackFields == {"name", "artists", "album", "added_at", "uri", "duration_ms"}

\* playlists with the fields kept for storage and no other
OnlyStoredFields(playlists) ==
    \A i \in 1..Len(playlists) :
        /\ DOMAIN playlists[i] = PlaylistFields
        /\ \A j \in 1..Len(playlists[i].tracks) :
              DOMAIN playlists[i].tracks[j] = TrackFields

OnlyStoredUser(user) == user = NullObject \/ DOMAIN user = {"id", "display_name"}

\* the backup in localStorage, parsed
BackupIn(s) == IF BACKUP_KEY \in DOMAIN s THEN JSON_parse(s[BACKUP_KEY]) ELSE NullObject

\* C27: what fetchFromSpotify hands to savePlaylistsCache, and what either cache
\* tier holds, has per playlist only id, name, owner and tracks and per track only
\* name, artists, album, added_at, uri and duration_ms; the user kept with it has
\* only id and display_name.
C27_OnlySanitizedFieldsPersisted ==
    /\ cache["save"].pc = "pending"
       => /\ OnlyStoredFields(cache["save"].args.playlists)
          /\ OnlyStoredFields(cache["save"].record.data)
          /\ OnlyStoredUser(cache["save"].record.user)
    /\ PLAYLISTS_KEY \in DOMAIN idb
       => /\ OnlyStoredFields(idb[PLAYLISTS_KEY].data)
          /\ OnlyStoredUser(idb[PLAYLISTS_KEY].user)
    /\ BACKUP_KEY \in DOMAIN ls
       => /\ OnlyStoredFields(BackupIn(ls).data)
          /\ OnlyStoredUser(BackupIn(ls).user)

\* the fetch of this session was saved into both tiers: the liked songs with a
\* track, and the playlist with its two tracks and its owner's name
C27_Witness ==
    /\ app.pc = "done"
    /\ PLAYLISTS_KEY \in DOMAIN idb /\ BACKUP_KEY \in DOMAIN ls
    /\ idb[PLAYLISTS_KEY].createdAt >= NowStart
    /\ BackupIn(ls).data = idb[PLAYLISTS_KEY].data
    /\ Len(idb[PLAYLISTS_KEY].data) = 2
    /\ Len(idb[PLAYLISTS_KEY].data[2].tracks) = 2
    /\ idb[PLAYLISTS_KEY].data[2].owner = "Ann"
    /\ idb[PLAYLISTS_KEY].user # NullObject

\* the three token entries of localStorage
TokenEntries == {LS_KEYS.token, LS_KEYS.tokenExpiry, LS_KEYS.refreshToken}

\* C28: after clearTokens no access token, expiry or refresh token is stored
\* until handleRedirectCallback completes a new exchange, also when a refresh
\* that began before the sign-out is answered after it.
C28_SignedOutUntilNewLogin == hist.signedOut => TokenEntries \cap DOMAIN ls = {}

\* C30: a step of fetchFromSpotify before its save, its failure included, calls
\* no savePlaylistsCache and leaves both cache tiers as they are; so a fetch that
\* fails at the profile, the playlist list or a playlist's tracks leaves the
\* tiers holding what they held when it started.
C30_FailedFetchLeavesCache ==
    [][(app.pc # "saving" /\ app'.pc \in {"fetching", "failed"})
       => (/\ cache'["save"] = cache["save"]
           /\ idb' = idb
           /\ BackupIn(ls') = BackupIn(ls))]_vars

\* the fetch failed at the tracks of the named playlist, after the profile had
\* arrived; the tiers hold the earlier save
C30_Witness ==
    /\ app.pc = "failed" /\ app.err = lib.err
    /\ lib.pc = "thrown" /\ lib.walk = "getAllPlaylistTracks" /\ lib.pages = 1
    /\ call["profile"].pc = "returned"
    /\ cache["save"] = CacheIdle
    /\ idb = putRecord(EmptyDb, OldRecord)
    /\ BackupIn(ls) = backupOf(OldRecord)

(***************************************************************************)
(* Which token response wrote the stored token and expiry (SpecTokens)     *)
(***************************************************************************)
\* the session manager with the writers of the token and the expiry recorded
InitTokens ==
    /\ ls = EmptyStore
    /\ now = NowStart
    /\ href = NoUrl
    /\ login = LoginNone
    /\ cb = CbIdle
    /\ call = [t \in Tasks |-> CallIdle]
    /\ inflight = {}
    /\ lib = LibIdle
    /\ srv = NoServer
    /\ idb = EmptyDb
    /\ cache = [t \in CacheTasks |-> CacheIdle]
    /\ hist = [NoHist EXCEPT !.writers = "same"]
    /\ app = AppIdle

SpecTokens == InitTokens /\ [][NextAuth]_vars

\* C31: in every state reachable through token exchanges, the stored expiry
\* was written by the same token response that wrote the stored access token:
\* the two are always replaced together, never one without the other.
C31_TokenAndExpiryReplacedTogether == hist.writers # "split"

====
